---- MODULE Spec2Model ----
(***************************************************************************)
(* Verification model of the A2A SDK's Redis-backed queue manager          *)
(* (src/src/a2a/server/events/redis_queue_manager.py).                     *)
(*                                                                         *)
(* Several RedisQueueManager instances (one per server process) share one  *)
(* Redis: a set registry of task ids and one pub/sub channel per task id.  *)
(* A step of a manager method is the execution of one of its Redis         *)
(* commands together with the local code around it, up to the next Redis   *)
(* command: calls of different managers interleave where the code can be   *)
(* suspended with the registry in view; calls of one manager are           *)
(* serialised by its asyncio.Lock.                                         *)
(*                                                                         *)
(* EventQueue and EventConsumer (a2a.server.events) are not part of the    *)
(* available sources; they are modelled from the written specification     *)
(* (spec.md 3 and 4.1): enqueue appends to the queue and to every tap of   *)
(* it, a tap starts empty, close is terminal and closes the taps, and a    *)
(* consumer drains a queue in FIFO order.  Redis commands are modelled by  *)
(* their documented contract: SISMEMBER/SADD/SREM on a set, PUBLISH        *)
(* delivering to the connections subscribed at that moment, messages of    *)
(* one connection handled in arrival order.                                *)
(***************************************************************************)
EXTENDS Integers, Sequences, FiniteSets, TLC

\* ------------------------------------------------------------------ bounds
\* Total number of inputs in one behaviour: manager calls issued plus events
\* enqueued by producers.
MaxInputs == 4

\* Number of manager instances (server processes) sharing the Redis instance.
NumManagers == 3

\* The managers.  They are interchangeable, so they are numbered in the order
\* in which they are first called.
Managers == 1..NumManagers
\* The task ids in use.
TaskIds == {"t1"}
\* Concurrently running calls (coroutines) over all managers.
Slots == {1, 2}
\* The manager methods.
Ops == {"add", "get", "tap", "close", "create_or_tap"}

VARIABLES
    registry,          \* Redis set a2a.event.registry: the registered task ids
    local_queue,       \* _local_queue of each manager: task id -> queue id, 0 absent
    proxy_queue,       \* _proxy_queue of each manager: task id -> queue id, 0 absent
    lock,              \* _lock of each manager: 0 free, else the slot holding it
    background_tasks,  \* _background_tasks of each manager: task id -> queue the relay task reads, 0 absent
    subs,              \* channels each manager's pubsub connection is subscribed to
    inbox,             \* messages published to a manager's connection, handler not yet run
    queue,             \* the EventQueue objects: sequence of [items, closed, parent]
    relay,             \* per queue object: state of the relay task reading it, and its task id
    role,              \* per queue object: what it was created as, for which manager and task
    call,              \* per slot: the call in progress, its position and what it found
    last,              \* what the call completing in the latest step returned or raised
    ninputs,           \* inputs so far: calls issued plus events produced
    nused,             \* managers called so far (managers 1..nused)
    nevents,           \* events enqueued by producers so far
    enq,               \* per queue: events a producer enqueued on it, in order
    got,               \* per queue: events its consumer dequeued, in order
    due,               \* per queue: events enqueued on the origin while this proxy was subscribed
    added,             \* per manager and task id: adds that succeeded since the last SREM of the id
    cfg,               \* client call: transport, operation, config.streaming, card.capabilities.streaming
    middleware,        \* Client._middleware: the interceptors registered on the client
    interceptors,      \* the transport client's `interceptors` list
    consumers,         \* Client._consumers: the registered Consumer callbacks
    cpc,               \* position of the client call
    fed,               \* events the transport stream has handed to Client.send_message, in order
    task,              \* ClientTaskManager: state of the materialized Task, "none" before the first event
    yielded,           \* items Client.send_message has yielded to the caller, in order
    notified,          \* Consumer invocations: consumer and item, in order
    sent,              \* outbound calls made by the transport client, each with the interceptors it passed
    cause,             \* what went wrong on the wire during the call, if anything
    raised,            \* the exception the caller observes, kind "none" if none
    factory,           \* ClientFactory: its config, its registry of client producers
    card,              \* the AgentCard handed to ClientFactory.create
    created,           \* what ClientFactory.create returned or raised
    store,             \* the push-notification config store: its kind, the configs per task id
    sending,           \* the call of send_notification: position, task, configs read, exception
    posts,             \* the HTTP POSTs the push-notification sender has made, in order
    agent_card,        \* AuthInterceptor.intercept: security and securitySchemes of the card
    credentials,       \* the credential service: the credential per scheme name, "None" if none
    request,           \* the request payload and the HTTP arguments handed to intercept
    intercepted,       \* what intercept returned, "none" before the call
    served,            \* the request the REST application is handling, and how the request handler behaves on it
    response,          \* what the REST application answered, status 0 before the answer
    handled,           \* requests the REST application has answered so far
    transport_stream,  \* one call of a transport's send_message_streaming: frames delivered, items yielded
    rpc,               \* the JSON-RPC transport's calls: the id the caller gave, the id sent, the id handed back
    transport_card,    \* one transport client and its get_card calls: the card held, _needs_extended_card, what the last call did
    models,            \* the model classes: the alias map cached on each class, one instance of each, the last attribute access
    rest_call          \* the REST client's requests: the operation, the (method, path) requested, the route the application dispatches it to

\* The variables of the queue managers.
qvars == <<registry, local_queue, proxy_queue, lock, background_tasks, subs, inbox,
           queue, relay, role, call, last, ninputs, nused, nevents, enq, got, due, added>>

\* The variables of the client.
cvars == <<cfg, middleware, interceptors, consumers, cpc, fed, task, yielded,
           notified, sent, cause, raised>>

\* The variables of the client factory.
fvars == <<factory, card, created>>

\* The variables of the push-notification sender and its config store.
pvars == <<store, sending, posts>>

\* The variables of the auth interceptor.
avars == <<agent_card, credentials, request, intercepted>>

\* The variables of the REST application.
svars == <<served, response, handled>>

\* The variables of the single transport operations.
yvars == <<transport_stream>>

\* The variables of the transports' other operations and of the model classes.
zvars == <<rpc, transport_card, models, rest_call>>

\* The variables of the subsystems above.
uvars == <<qvars, cvars, fvars, pvars, avars, svars, yvars>>

\* The variables outside the queue managers and the client call.
xvars == <<fvars, pvars, avars, svars, yvars, zvars>>

vars == <<registry, local_queue, proxy_queue, lock, background_tasks, subs, inbox,
          queue, relay, role, call, last, ninputs, nused, nevents, enq, got, due, added,
          cfg, middleware, interceptors, consumers, cpc, fed, task, yielded,
          notified, sent, cause, raised, factory, card, created,
          store, sending, posts, agent_card, credentials, request, intercepted,
          served, response, handled, transport_stream, rpc, transport_card, models, rest_call>>

\* ---------------------------------------------------------------- helpers
QueueIds == 1..Len(queue)

NoCall == [pc |-> "idle", op |-> "none", m |-> 0, t |-> "none", q |-> 0,
           saw |-> FALSE, hadLocal |-> FALSE, hadProxy |-> FALSE]

NoResult == [op |-> "none", m |-> 0, t |-> "none",
             kind |-> "nothing", q |-> 0,
             saw |-> FALSE, hadLocal |-> FALSE, hadProxy |-> FALSE]

\* EventQueue(): a new, open, empty queue without parent.
NewQueue == [items |-> <<>>, closed |-> FALSE, parent |-> 0]

\* x is q or a tap (of a tap ...) of q.
RECURSIVE Under(_, _)
Under(x, q) ==
    IF x = q THEN TRUE
    ELSE IF x = 0 THEN FALSE
    ELSE Under(queue[x].parent, q)

\* ----------------------------------------------- EventQueue / EventConsumer
\* EventQueue.enqueue_event: a no-op on a closed queue, otherwise the event is
\* appended to the queue and to every open tap of it.
EnqueueEvent(qs, q, e) ==
    IF qs[q].closed THEN qs
    ELSE [x \in DOMAIN qs |->
            IF Under(x, q) /\ ~qs[x].closed
            THEN [qs[x] EXCEPT !.items = Append(@, e)]
            ELSE qs[x]]

\* EventQueue.dequeue_event: the consumer receives the oldest pending event.
DequeueEvent(qs, q) == [qs EXCEPT ![q].items = Tail(@)]

\* EventQueue.tap: a new empty queue fed by every later enqueue on q.
Tap(qs, q) == Append(qs, [NewQueue EXCEPT !.parent = q])

\* EventQueue.close: terminal; the queue and its taps accept no more events.
CloseQueue(qs, q) ==
    [x \in DOMAIN qs |->
        IF Under(x, q) THEN [qs[x] EXCEPT !.closed = TRUE] ELSE qs[x]]

\* ------------------------------------------------------------ fault variants
\* Faulty variants of single operations, used to show that a property below
\* depends on the operation it is about.
\* A lock that never makes a caller wait.
LockNeverHeld(m) == TRUE

\* A registry lookup that never finds the id.
HasTaskIdNever(reg, t) == FALSE

\* A close that leaves the id in the registry.
RemoveTaskIdSkipped(reg, t) == reg

\* A proxy close that keeps the subscription.
UnsubscribeSkipped(s, t) == s

\* A channel that hands the newest message to the handler first.
PublishNewestFirst(inb, t, j) ==
    [m \in Managers |->
        IF t \in subs[m] THEN <<[task |-> t, data |-> j]>> \o inb[m]
        ELSE inb[m]]

\* --------------------------------------------------------- Redis primitives
\* _has_task_id: SISMEMBER registry task_id.
HasTaskId(reg, t) == t \in reg

\* _register_task_id: SADD registry task_id.
RegisterTaskId(reg, t) == reg \cup {t}

\* _remove_task_id: SREM registry task_id.
RemoveTaskId(reg, t) == reg \ {t}

\* _subscribe_remote_task_events: SUBSCRIBE to the task's channel.
Subscribe(s, t) == s \cup {t}

\* _unsubscribe_remote_task_events: UNSUBSCRIBE from the task's channel.
Unsubscribe(s, t) == s \ {t}

\* event.model_dump_json(exclude_none=True): the JSON text put on the channel.
ModelDumpJson(e) == [json |-> e]

\* Event.model_validate_json: the event read back from the JSON text.
ModelValidateJson(j) == j.json

\* redis.publish(channel(t), j): the message reaches every connection that is
\* subscribed to the channel at this moment, behind its earlier messages.
Publish(inb, t, j) ==
    [m \in Managers |->
        IF t \in subs[m] THEN Append(inb[m], [task |-> t, data |-> j])
        ELSE inb[m]]

\* `async with self._lock`: the manager's lock can be taken.
LockFree(m) == lock[m] = 0

\* _listen_and_relay: the queue the relay task of (m, t) consumes from.
RelaySource(m, t) == local_queue[m][t]

\* ------------------------------------------------------------ call plumbing
\* Bookkeeping for a newly created EventQueue object: no relay task reads it.
NewInfo(kind, m, t) ==
    /\ enq' = Append(enq, <<>>)
    /\ got' = Append(got, <<>>)
    /\ due' = Append(due, <<>>)
    /\ relay' = Append(relay, [state |-> "none", task |-> "none"])
    /\ role' = Append(role, [kind |-> kind, m |-> m, t |-> t])

KeepInfo == UNCHANGED <<enq, got, due, relay, role>>

\* A new call can be issued in slot c on manager m.
NewCall(c, m) ==
    /\ call[c].pc = "idle"
    /\ \A d \in Slots : d < c => call[d].pc # "idle"
    /\ ninputs < MaxInputs
    /\ m <= nused + 1

Issued(m) ==
    /\ ninputs' = ninputs + 1
    /\ nused' = IF m > nused THEN m ELSE nused

\* op(t) on manager m enters `async with self._lock` in slot c: a call issued
\* now while the lock is free, or a call that waited for the lock.
Arrive(c, op, m, t) ==
    /\ LockFree(m)
    /\ \/ /\ call[c].pc = "wait"
          /\ call[c].op = op /\ call[c].m = m /\ call[c].t = t
          /\ UNCHANGED <<ninputs, nused>>
       \/ /\ NewCall(c, m)
          /\ Issued(m)

\* op(t) is issued on manager m while another call holds the manager's lock:
\* the coroutine waits in `async with self._lock`.
Wait(c, op, m, t) ==
    /\ NewCall(c, m)
    /\ ~LockFree(m)
    /\ Issued(m)
    /\ call' = [call EXCEPT ![c] = [NoCall EXCEPT !.pc = "wait", !.op = op,
                                                  !.m = m, !.t = t]]
    /\ last' = NoResult
    /\ UNCHANGED <<cvars, xvars>>
    /\ UNCHANGED <<registry, local_queue, proxy_queue, lock, background_tasks,
                   subs, inbox, queue, relay, role, nevents, enq, got, due,
                   added>>

\* The call op(t) of manager m in slot c returns (kind "queue", "none", "ok")
\* or raises (kind "TaskQueueExists", "NoTaskQueue").  seen, hl, hp record
\* what the call found: the id in the registry, a local queue, a proxy queue.
Finish(c, op, m, t, kind, q, seen, hl, hp) ==
    /\ call' = [call EXCEPT ![c] = NoCall]
    /\ last' = [op |-> op, m |-> m, t |-> t, kind |-> kind, q |-> q,
                saw |-> seen, hadLocal |-> hl, hadProxy |-> hp]
    /\ UNCHANGED <<cvars, xvars>>

\* op(t), arriving on manager m, returns or raises without being suspended
\* at a further Redis command: the lock is taken and released in this step.
ReturnNow(c, op, m, t, kind, q) ==
    /\ Finish(c, op, m, t, kind, q, t \in registry,
              local_queue[m][t] # 0, proxy_queue[m][t] # 0)
    /\ lock' = lock

\* op(t), arriving on manager m, is suspended at the Redis command pc,
\* holding the lock.  q is the method's local variable `queue`.
Suspend(c, op, m, t, pc, q) ==
    /\ lock' = [lock EXCEPT ![m] = c]
    /\ call' = [call EXCEPT ![c] = [pc |-> pc, op |-> op, m |-> m, t |-> t,
                                    q |-> q, saw |-> t \in registry,
                                    hadLocal |-> local_queue[m][t] # 0,
                                    hadProxy |-> proxy_queue[m][t] # 0]]
    /\ last' = NoResult
    /\ UNCHANGED <<cvars, xvars>>

\* The suspended call in slot c returns and leaves `async with self._lock`.
Complete(c, kind, q) ==
    /\ Finish(c, call[c].op, call[c].m, call[c].t, kind, q, call[c].saw,
              call[c].hadLocal, call[c].hadProxy)
    /\ lock' = [lock EXCEPT ![call[c].m] = 0]

\* EventQueue.tap() on queue x creates the queue object returned to the caller.
NewTap(x, m, t) ==
    /\ queue' = Tap(queue, x)
    /\ NewInfo("tap", m, t)

\* `queue = EventQueue()`: a queue object of the given kind is created.
NewObject(kind, m, t) ==
    /\ queue' = Append(queue, NewQueue)
    /\ NewInfo(kind, m, t)

\* ------------------------------------------------------------------ add
\* add(t, queue) up to SADD: `async with self._lock`, then
\* `if await self._has_task_id(task_id): raise TaskQueueExists()`, else
\* `self._local_queue[task_id] = queue` with the caller's new queue.
Add(c, m, t) ==
    /\ Arrive(c, "add", m, t)
    /\ IF HasTaskId(registry, t)
       THEN /\ ReturnNow(c, "add", m, t, "TaskQueueExists", 0)
            /\ UNCHANGED <<local_queue, queue>>
            /\ KeepInfo
       ELSE /\ NewObject("local", m, t)
            /\ local_queue' = [local_queue EXCEPT ![m][t] = Len(queue) + 1]
            /\ Suspend(c, "add", m, t, "sadd", Len(queue) + 1)
    /\ UNCHANGED <<registry, proxy_queue, background_tasks, subs, inbox,
                   nevents, added>>

\* _register_task_id: SADD, then the relay task of (m, t) is created.
Register(c) ==
    LET m == call[c].m
        t == call[c].t
        src == RelaySource(m, t)
    IN  /\ registry' = RegisterTaskId(registry, t)
        /\ background_tasks' = [background_tasks EXCEPT ![m][t] = src]
        /\ relay' = [relay EXCEPT ![src] = [state |-> "running", task |-> t]]
        /\ UNCHANGED <<local_queue, proxy_queue, subs, inbox, queue, role,
                       ninputs, nused, nevents, enq, got, due>>

\* add(t, queue) from SADD on: the id is registered and add returns.
AddRegister(c) ==
    /\ call[c].pc = "sadd" /\ call[c].op = "add"
    /\ Register(c)
    /\ added' = [added EXCEPT ![call[c].m][call[c].t] = @ + 1]
    /\ Complete(c, "ok", 0)

\* ------------------------------------------------------------ get and tap
\* tap(t) is `await self.get(t)` followed at once by `.tap()` on the result.
IsTap(op) == op = "tap"

\* get (or tap) returns queue x (tap: a new tap of x) on arrival.
GetReturnsNow(c, op, m, t, x) ==
    IF IsTap(op)
    THEN /\ NewTap(x, m, t)
         /\ ReturnNow(c, op, m, t, "queue", Len(queue) + 1)
    ELSE /\ UNCHANGED queue
         /\ KeepInfo
         /\ ReturnNow(c, op, m, t, "queue", x)

\* get(t) and tap(t) up to SUBSCRIBE: the local lookup, then the global
\* lookup, which creates a proxy for a registered id the manager has no proxy
\* for, returns the existing proxy, or returns None for an unregistered id.
Get(c, op, m, t) ==
    /\ op \in {"get", "tap"}
    /\ Arrive(c, op, m, t)
    /\ IF local_queue[m][t] # 0
       THEN /\ GetReturnsNow(c, op, m, t, local_queue[m][t])
            /\ UNCHANGED proxy_queue
       ELSE IF HasTaskId(registry, t)
       THEN IF proxy_queue[m][t] = 0
            THEN /\ NewObject("proxy", m, t)
                 /\ proxy_queue' = [proxy_queue EXCEPT ![m][t] = Len(queue) + 1]
                 /\ Suspend(c, op, m, t, "sub", Len(queue) + 1)
            ELSE /\ GetReturnsNow(c, op, m, t, proxy_queue[m][t])
                 /\ UNCHANGED proxy_queue
       ELSE /\ ReturnNow(c, op, m, t, "none", 0)
            /\ UNCHANGED <<proxy_queue, queue>>
            /\ KeepInfo
    /\ UNCHANGED <<registry, local_queue, background_tasks, subs, inbox,
                   nevents, added>>

\* get(t) and tap(t) from SUBSCRIBE on:
\* `await self._subscribe_remote_task_events(task_id)`, then the new proxy
\* (tap: a tap of it) is returned.
GetSubscribe(c) ==
    LET m == call[c].m
        t == call[c].t
    IN  /\ call[c].pc = "sub" /\ call[c].op \in {"get", "tap"}
        /\ subs' = [subs EXCEPT ![m] = Subscribe(@, t)]
        /\ IF IsTap(call[c].op)
           THEN /\ NewTap(proxy_queue[m][t], m, t)
                /\ Complete(c, "queue", Len(queue) + 1)
           ELSE /\ UNCHANGED queue
                /\ KeepInfo
                /\ Complete(c, "queue", proxy_queue[m][t])
        /\ UNCHANGED <<registry, local_queue, proxy_queue, background_tasks,
                       inbox, ninputs, nused, nevents, added>>

\* ------------------------------------------------------------------ close
\* The relay task of (m, t), if any, is cancelled.
CancelRelay(rl, m, t) ==
    IF background_tasks[m][t] # 0
    THEN [rl EXCEPT ![background_tasks[m][t]].state = "cancelled"]
    ELSE rl

\* A close that returns normally on a manager without a queue for the id.
CloseMissingReturns(c, m, t) ==
    /\ ReturnNow(c, "close", m, t, "ok", 0)
    /\ UNCHANGED <<local_queue, proxy_queue, queue, relay, subs>>

\* close(t) on a manager with neither a local nor a proxy queue for t:
\* `raise NoTaskQueue()` inside the lock, nothing touched.
CloseMissing(c, m, t) ==
    /\ ReturnNow(c, "close", m, t, "NoTaskQueue", 0)
    /\ UNCHANGED <<local_queue, proxy_queue, queue, relay, subs>>

\* close(t) up to SREM: a local queue is popped and closed and its relay task
\* cancelled; else a proxy queue is popped, closed and unsubscribed, and close
\* returns; with neither, NoTaskQueue is raised.
Close(c, m, t) ==
    /\ Arrive(c, "close", m, t)
    /\ IF local_queue[m][t] # 0
       THEN /\ local_queue' = [local_queue EXCEPT ![m][t] = 0]
            /\ queue' = CloseQueue(queue, local_queue[m][t])
            /\ relay' = CancelRelay(relay, m, t)
            /\ Suspend(c, "close", m, t, "srem", local_queue[m][t])
            /\ UNCHANGED <<proxy_queue, subs>>
       ELSE IF proxy_queue[m][t] # 0
       THEN /\ proxy_queue' = [proxy_queue EXCEPT ![m][t] = 0]
            /\ queue' = CloseQueue(queue, proxy_queue[m][t])
            /\ subs' = [subs EXCEPT ![m] = Unsubscribe(@, t)]
            /\ ReturnNow(c, "close", m, t, "ok", proxy_queue[m][t])
            /\ UNCHANGED <<local_queue, relay>>
       ELSE CloseMissing(c, m, t)
    /\ UNCHANGED <<registry, background_tasks, inbox, role, nevents, enq, got,
                   due, added>>

\* close(t) from SREM on: _remove_task_id removes the id, then close returns.
CloseRemove(c) ==
    LET t == call[c].t
    IN  /\ call[c].pc = "srem" /\ call[c].op = "close"
        /\ registry' = RemoveTaskId(registry, t)
        /\ added' = [m \in Managers |-> [added[m] EXCEPT ![t] = 0]]
        /\ Complete(c, "ok", call[c].q)
        /\ UNCHANGED <<local_queue, proxy_queue, background_tasks, subs, inbox,
                       queue, relay, role, ninputs, nused, nevents, enq, got,
                       due>>

\* ---------------------------------------------------------- create_or_tap
\* create_or_tap(t) up to its second Redis command.  A registered id: a tap
\* of the local queue, else a tap of the proxy, else a new proxy (SUBSCRIBE
\* to come).  An unregistered id: a new local queue (SADD to come).
CreateOrTap(c, m, t) ==
    /\ Arrive(c, "create_or_tap", m, t)
    /\ IF HasTaskId(registry, t)
       THEN IF local_queue[m][t] # 0
            THEN /\ NewTap(local_queue[m][t], m, t)
                 /\ ReturnNow(c, "create_or_tap", m, t, "queue", Len(queue) + 1)
                 /\ UNCHANGED <<local_queue, proxy_queue>>
            ELSE IF proxy_queue[m][t] # 0
            THEN /\ NewTap(proxy_queue[m][t], m, t)
                 /\ ReturnNow(c, "create_or_tap", m, t, "queue", Len(queue) + 1)
                 /\ UNCHANGED <<local_queue, proxy_queue>>
            ELSE /\ NewObject("proxy", m, t)
                 /\ proxy_queue' = [proxy_queue EXCEPT ![m][t] = Len(queue) + 1]
                 /\ Suspend(c, "create_or_tap", m, t, "sub", Len(queue) + 1)
                 /\ UNCHANGED local_queue
       ELSE /\ NewObject("local", m, t)
            /\ local_queue' = [local_queue EXCEPT ![m][t] = Len(queue) + 1]
            /\ Suspend(c, "create_or_tap", m, t, "sadd", Len(queue) + 1)
            /\ UNCHANGED proxy_queue
    /\ UNCHANGED <<registry, background_tasks, subs, inbox, nevents, added>>

\* create_or_tap(t) from SADD on: the new local queue is registered and returned.
CotRegister(c) ==
    /\ call[c].pc = "sadd" /\ call[c].op = "create_or_tap"
    /\ Register(c)
    /\ Complete(c, "queue", call[c].q)
    /\ UNCHANGED added

\* create_or_tap(t) from SUBSCRIBE on: the new proxy is subscribed and returned.
CotSubscribe(c) ==
    LET m == call[c].m
        t == call[c].t
    IN  /\ call[c].pc = "sub" /\ call[c].op = "create_or_tap"
        /\ subs' = [subs EXCEPT ![m] = Subscribe(@, t)]
        /\ Complete(c, "queue", proxy_queue[m][t])
        /\ UNCHANGED <<registry, local_queue, proxy_queue, background_tasks,
                       inbox, queue, relay, role, enq, got, due, ninputs, nused,
                       nevents, added>>

\* -------------------------------------------------------------- event flow
\* The proxy queues that are subscribed to task t's channel.
SubscribedProxies(t) ==
    {proxy_queue[m][t] : m \in {x \in Managers : t \in subs[x] /\ proxy_queue[x][t] # 0}}

\* The producer (the agent executor) enqueues the next event on origin queue
\* q, which add or create_or_tap has registered.
Produce(q) ==
    LET e == nevents + 1
    IN  /\ role[q].kind = "local"
        /\ relay[q].state = "running"
        /\ ~queue[q].closed
        /\ ninputs < MaxInputs
        /\ ninputs' = ninputs + 1
        /\ nevents' = e
        /\ queue' = EnqueueEvent(queue, q, e)
        /\ enq' = [enq EXCEPT ![q] = Append(@, e)]
        /\ due' = [p \in DOMAIN due |->
                     IF p \in SubscribedProxies(role[q].t)
                     THEN Append(due[p], e) ELSE due[p]]
        /\ UNCHANGED <<registry, local_queue, proxy_queue, lock, background_tasks,
                       subs, inbox, relay, role, call, nused, got, added>>
        /\ last' = NoResult
        /\ UNCHANGED <<cvars, xvars>>

\* The consumer of queue q (the holder of that queue object) dequeues an event.
Dequeue(q) ==
    /\ queue[q].items # <<>>
    /\ got' = [got EXCEPT ![q] = Append(@, Head(queue[q].items))]
    /\ queue' = DequeueEvent(queue, q)
    /\ UNCHANGED <<registry, local_queue, proxy_queue, lock, background_tasks,
                   subs, inbox, relay, role, call, ninputs, nused, nevents, enq,
                   due, added>>
    /\ last' = NoResult
    /\ UNCHANGED <<cvars, xvars>>

\* _listen_and_relay: the relay task consumes one event from its queue and
\* publishes it on the task's channel.
ListenAndRelay(q) ==
    /\ relay[q].state = "running"
    /\ queue[q].items # <<>>
    /\ queue' = DequeueEvent(queue, q)
    /\ inbox' = Publish(inbox, relay[q].task, ModelDumpJson(Head(queue[q].items)))
    /\ UNCHANGED <<registry, local_queue, proxy_queue, lock, background_tasks,
                   subs, relay, role, call, ninputs, nused, nevents, enq, got,
                   due, added>>
    /\ last' = NoResult
    /\ UNCHANGED <<cvars, xvars>>

\* _relay_remote_events: the pubsub handler of manager m runs on the oldest
\* message of its connection and enqueues the event on the proxy, if any.
RelayRemoteEvents(m) ==
    /\ inbox[m] # <<>>
    /\ inbox' = [inbox EXCEPT ![m] = Tail(@)]
    /\ LET t == Head(inbox[m]).task
           e == ModelValidateJson(Head(inbox[m]).data)
       IN  IF t \in subs[m] /\ proxy_queue[m][t] # 0
           THEN queue' = EnqueueEvent(queue, proxy_queue[m][t], e)
           ELSE UNCHANGED queue
    /\ UNCHANGED <<registry, local_queue, proxy_queue, lock, background_tasks,
                   subs, relay, role, call, ninputs, nused, nevents, enq, got,
                   due, added>>
    /\ last' = NoResult
    /\ UNCHANGED <<cvars, xvars>>

\* ------------------------------------------------------------ specification
\* The queue managers after construction, nothing registered.
QueueInit ==
    /\ registry = {}
    /\ local_queue = [m \in Managers |-> [t \in TaskIds |-> 0]]
    /\ proxy_queue = [m \in Managers |-> [t \in TaskIds |-> 0]]
    /\ lock = [m \in Managers |-> 0]
    /\ background_tasks = [m \in Managers |-> [t \in TaskIds |-> 0]]
    /\ subs = [m \in Managers |-> {}]
    /\ inbox = [m \in Managers |-> <<>>]
    /\ queue = <<>>
    /\ relay = <<>>
    /\ role = <<>>
    /\ call = [c \in Slots |-> NoCall]
    /\ last = NoResult
    /\ ninputs = 0
    /\ nused = 0
    /\ nevents = 0
    /\ enq = <<>>
    /\ got = <<>>
    /\ due = <<>>
    /\ added = [m \in Managers |-> [t \in TaskIds |-> 0]]

\* No client call is made in the behaviours of the queue managers.
NoClient ==
    /\ cfg = [transport |-> "none", op |-> "none", streaming |-> FALSE,
              cardStreaming |-> FALSE]
    /\ middleware = <<>>
    /\ interceptors = <<>>
    /\ consumers = <<>>
    /\ cpc = "unused"
    /\ fed = <<>>
    /\ task = "none"
    /\ yielded = <<>>
    /\ notified = <<>>
    /\ sent = <<>>
    /\ cause = [kind |-> "none", phase |-> "none", status |-> 0]
    /\ raised = [kind |-> "none", status |-> 0]

\* No factory is used in the behaviours of the queue managers and of the client.
NoFactory ==
    /\ factory = [supported_transports |-> <<>>, use_client_preference |-> FALSE,
                  registry |-> [t \in {} |-> "None"], registered |-> 0]
    /\ card = [preferred_transport |-> "None", additional_interfaces |-> <<>>]
    /\ created = [outcome |-> "none", transport |-> "None", producer |-> "None"]

\* No push notification is sent in the behaviours of the other subsystems.
NoPush ==
    /\ store = [kind |-> "none", infos |-> [t \in {} |-> {}], calls |-> 0]
    /\ sending = [pc |-> "unused", task |-> "None", configs |-> {}, todo |-> {},
                  raised |-> "none"]
    /\ posts = <<>>

\* No request is intercepted in the behaviours of the other subsystems.
NoAuth ==
    /\ agent_card = [security |-> <<>>, securitySchemes |-> [n \in {} |-> "none"]]
    /\ credentials = [n \in {} |-> "None"]
    /\ request = [payload |-> "none", http_kwargs |-> [headers |-> {}]]
    /\ intercepted = [done |-> FALSE, payload |-> "none",
                      http_kwargs |-> [headers |-> {}]]

\* No protocol error: the `None` of ServerError.error, and the error of an
\* answer that reports none.
NoError == [kind |-> "none", message |-> <<"none", "">>, data |-> <<"none", "">>]

\* No Python exception.
NoException == [type |-> "none", text |-> "", error |-> NoError]

\* The REST application before a request arrives.
NoRequest ==
    [op |-> "none", body |-> "valid", capable |-> TRUE,
     outcome |-> [do |-> "returns", value |-> "result", exc |-> NoException],
     state |-> "none"]

\* No answer yet.
NoResponse ==
    [status |-> 0, result |-> "none",
     body |-> [code |-> "absent", message |-> <<"absent", "">>, data |-> <<"absent", "">>],
     error |-> NoError, log |-> "none", escaped |-> NoException]

\* The REST application handles no request in the behaviours of the other subsystems.
NoServer ==
    /\ served = NoRequest
    /\ response = NoResponse
    /\ handled = 0

\* A request id: None, a string (val) or an integer (num); str(uuid4()) is the
\* string "uuid4" with the serial of the draw in num, so that two draws differ.
NoneId == [type |-> "None", val |-> "", num |-> 0]

\* No transport stream is read in the behaviours of the other subsystems.
NoStream ==
    transport_stream = [transport |-> "none", pc |-> "unused", delivered |-> <<>>,
                        items |-> <<>>, eof |-> FALSE]

\* No JSON-RPC operation is called in the behaviours of the other subsystems.
NoRpc ==
    rpc = [pc |-> "unused", op |-> "none", given |-> NoneId, request_id |-> NoneId,
           sent |-> NoneId, returned |-> NoneId, generated |-> 0, calls |-> 0]

\* An agent card as get_card sees it: whether one is held, whether it declares
\* supportsAuthenticatedExtendedCard, whether it is the extended card.
NoAgentCard == [held |-> FALSE, supports |-> FALSE, extended |-> FALSE]

\* No get_card is called in the behaviours of the other subsystems.
NoCardCalls ==
    transport_card = [transport |-> "none", pc |-> "unused", agent_card |-> NoAgentCard, needs |-> FALSE,
                      calls |-> 0, requests |-> 0, holding |-> FALSE, declared |-> FALSE,
                      fetched |-> FALSE,
                      requested |-> FALSE, result |-> "none"]

\* No model instance is accessed in the behaviours of the other subsystems.
NoModels ==
    models = [cache |-> <<>>, fields |-> <<>>,
              last |-> [cls |-> "none", op |-> "none", name |-> "", field |-> "", outcome |-> "none"]]

\* No REST request is routed in the behaviours of the other subsystems.
NoRestCall ==
    rest_call = [pc |-> "unused", supports |-> FALSE, op |-> "none", method |-> "",
                 path |-> <<>>, handler |-> "none", calls |-> 0]

NoLater == NoRpc /\ NoCardCalls /\ NoModels /\ NoRestCall

NoFurther == NoStream /\ NoLater

\* Nothing else than the specified subsystem runs.
NoOthers == NoFactory /\ NoPush /\ NoAuth /\ NoServer /\ NoFurther

Init == QueueInit /\ NoClient /\ NoOthers

Next ==
    \/ \E c \in Slots, op \in Ops, m \in Managers, t \in TaskIds : Wait(c, op, m, t)
    \/ \E c \in Slots, m \in Managers, t \in TaskIds : Add(c, m, t)
    \/ \E c \in Slots : AddRegister(c)
    \/ \E c \in Slots, op \in Ops, m \in Managers, t \in TaskIds : Get(c, op, m, t)
    \/ \E c \in Slots : GetSubscribe(c)
    \/ \E c \in Slots, m \in Managers, t \in TaskIds : Close(c, m, t)
    \/ \E c \in Slots : CloseRemove(c)
    \/ \E c \in Slots, m \in Managers, t \in TaskIds : CreateOrTap(c, m, t)
    \/ \E c \in Slots : CotRegister(c)
    \/ \E c \in Slots : CotSubscribe(c)
    \/ \E q \in QueueIds : Produce(q)
    \/ \E q \in QueueIds : Dequeue(q)
    \/ \E q \in QueueIds : ListenAndRelay(q)
    \/ \E m \in Managers : RelayRemoteEvents(m)

Spec == Init /\ [][Next]_vars

\* ------------------------------------------------------------ observations
\* What the consumer holding queue x has read, followed by what it can still
\* read, in reading order.
Observed(x) == got[x] \o queue[x].items

Range(f) == {f[i] : i \in DOMAIN f}

\* The relay tasks publishing on task t's channel.
RelaysOf(t) == {q \in QueueIds : relay[q].state = "running" /\ relay[q].task = t}

\* Task t has a running relay, and nothing of t's stream is still on its way
\* to manager m: the relays have drained their queues and m's handler has run
\* on every message published to m.
Settled(m, t) ==
    /\ RelaysOf(t) # {}
    /\ \A q \in RelaysOf(t) : queue[q].items = <<>> /\ ~queue[q].closed
    /\ inbox[m] = <<>>

\* Manager m holds an open, subscribed proxy queue for task t.
HasLiveProxy(m, t) ==
    /\ proxy_queue[m][t] # 0
    /\ t \in subs[m]
    /\ ~queue[proxy_queue[m][t]].closed

\* The origin queues of task t: the queues registered as a local queue for t.
OriginsOf(t) == {q \in QueueIds : role[q].kind = "local" /\ role[q].t = t}

\* ------------------------------------------------------------------ claims
\* C1: once manager P2 holds a proxy for t, every event enqueued afterwards on
\* the origin queue in P1 becomes available on P2's proxy: when nothing is
\* left to relay or deliver, the proxy has received each of these events.
C1_EnqueuedReachesProxy ==
    \A m \in Managers, t \in TaskIds :
        (HasLiveProxy(m, t) /\ Settled(m, t))
            => Range(due[proxy_queue[m][t]]) \subseteq Range(Observed(proxy_queue[m][t]))

\* C2: the relay reads through a tap of its own, so every event enqueued on an
\* origin queue is read by that queue's own consumer: the relay never takes
\* an event away from it.
C2_RelayLeavesLocalConsumer ==
    \A q \in QueueIds : role[q].kind = "local" => Observed(q) = enq[q]

\* C3: what a consumer reads from a proxy queue of t is the sequence enqueued
\* on t's origin queue, nothing missing and nothing twice, whenever the proxy
\* was created.
C3_ProxySameSequence ==
    \A m \in Managers, t \in TaskIds :
        (HasLiveProxy(m, t) /\ Settled(m, t))
            => \A q \in OriginsOf(t) :
                   relay[q].state = "running" => Observed(proxy_queue[m][t]) = enq[q]

\* C4: add(t, q) raises TaskQueueExists whenever a queue for t exists already:
\* the manager holds a local queue for t (a second add), or t is registered.
C4_AddRaisesWhenQueueExists ==
    (last.op = "add" /\ (last.saw \/ last.hadLocal)) => last.kind = "TaskQueueExists"

C6_CloseOrigin ==
    /\ (last.op = "close" /\ last.hadLocal)
          => /\ last.kind = "ok"
             /\ queue[last.q].closed
             /\ local_queue[last.m][last.t] = 0
             /\ last.t \notin registry
             /\ relay[last.q].state # "running"
    /\ (last.op \in {"get", "tap"} /\ ~last.saw /\ ~last.hadLocal)
          => last.kind = "none"
    /\ (last.op = "add" /\ ~last.saw)
          => /\ last.kind = "ok"
             /\ last.t \in registry
             /\ local_queue[last.m][last.t] # 0
             /\ ~queue[local_queue[last.m][last.t]].closed
             /\ relay[local_queue[last.m][last.t]].state = "running"

\* C6 witness: add(t) has just succeeded on a manager whose earlier origin
\* queue for t was closed, with its relay cancelled.
C6_Witness ==
    /\ last.op = "add" /\ last.kind = "ok"
    /\ \E q \in QueueIds :
           /\ role[q] = [kind |-> "local", m |-> last.m, t |-> last.t]
           /\ queue[q].closed
           /\ relay[q].state = "cancelled"
           /\ local_queue[last.m][last.t] # q

\* The step in which manager m drops its proxy queue for t.
DropsProxy(m, t) == proxy_queue[m][t] # 0 /\ proxy_queue'[m][t] = 0

C8_ReturnsExistingQueue ==
    last.op = "create_or_tap" =>
        /\ last.kind = "queue"
        /\ last.hadLocal
              => role[last.q].kind = "tap"
                 /\ queue[last.q].parent = local_queue[last.m][last.t]
        /\ (last.hadProxy /\ ~last.hadLocal)
              => role[last.q].kind = "tap"
                 /\ queue[last.q].parent = proxy_queue[last.m][last.t]

\* C9: on a manager with no queue for t, get, tap and create_or_tap of a
\* registered t return an open queue that is neither an origin queue nor a tap
\* of one, and leave t in the manager's proxy map and out of its local map;
\* get and tap of an id that is in no registry and in no map return None.
C9_ProxyForRegisteredId ==
    /\ (last.op \in {"get", "tap", "create_or_tap"}
           /\ last.saw /\ ~last.hadLocal /\ ~last.hadProxy)
          => /\ last.kind = "queue"
             /\ ~queue[last.q].closed
             /\ \A o \in OriginsOf(last.t) : ~Under(last.q, o)
             /\ proxy_queue[last.m][last.t] # 0
             /\ Under(last.q, proxy_queue[last.m][last.t])
             /\ local_queue[last.m][last.t] = 0
    /\ (last.op \in {"get", "tap"}
           /\ ~last.saw /\ ~last.hadLocal /\ ~last.hadProxy)
          => /\ last.kind = "none"
             /\ proxy_queue[last.m][last.t] = 0
             /\ local_queue[last.m][last.t] = 0

\* C9 witness: tap(t) on a manager without queue for t, with t registered by
\* another manager, has just returned a queue.
C9_Witness ==
    /\ last.op = "tap" /\ last.kind = "queue"
    /\ last.saw /\ ~last.hadLocal /\ ~last.hadProxy
    /\ \E o \in OriginsOf(last.t) : role[o].m # last.m /\ relay[o].state = "running"

\* Sequence s holds the events of set E in increasing (enqueue) order.
InOrder(s, E) ==
    \A i, j \in DOMAIN s : (i < j /\ s[i] \in E /\ s[j] \in E) => s[i] < s[j]

MaxStream == 3      \* events one streaming call delivers at most

Transports == {"JSONRPC", "GRPC", "REST"}
HttpTransports == {"JSONRPC", "REST"}
ClientOps == {"send_message", "get_task", "get_agent_card"}
ErrorStatuses == {404, 500}          \* non-2xx statuses the server answers with
StatusStates == {"working", "completed", "failed"}
Terminal == {"completed", "failed", "canceled", "rejected"}

\* What a stream or a blocking reply carries.
TaskEvent == [kind |-> "task", state |-> "submitted", final |-> FALSE]
MessageEvent == [kind |-> "message", state |-> "none", final |-> FALSE]
ArtifactEvent == [kind |-> "artifact", state |-> "none", final |-> FALSE]
StatusEvents == {[kind |-> "status", state |-> s, final |-> f] :
                    s \in StatusStates, f \in BOOLEAN}
StreamEvents == {TaskEvent, MessageEvent, ArtifactEvent} \cup StatusEvents

NoFailure == [kind |-> "none", phase |-> "none", status |-> 0]
NotRaised == [kind |-> "none", status |-> 0]
Failure(kind, phase, status) == [kind |-> kind, phase |-> phase, status |-> status]
Exception(kind, status) == [kind |-> kind, status |-> status]

\* The failures the wire can produce, by transport and by phase of the call.
Failures(transport, phase) ==
    IF transport = "GRPC" THEN {Failure("grpc_failure", phase, 0)}
    ELSE {Failure(k, phase, 0) : k \in {"network", "timeout"}}
         \cup {Failure("http_status", phase, c) : c \in
                  IF phase \in {"blocking", "connect", "card"} THEN ErrorStatuses ELSE {}}
         \cup {Failure(k, phase, 0) : k \in
                  IF phase \in {"blocking", "stream", "card"}
                  THEN {"bad_json", "bad_schema"} ELSE {}}
         \cup {Failure("sse_error", phase, 0) : k \in
                  IF phase = "stream" THEN {1} ELSE {}}
         \cup {Failure("rpc_error", phase, 0) : k \in
                  IF transport = "JSONRPC" /\ phase \in {"blocking", "stream"}
                  THEN {1} ELSE {}}

\* ---- fault variants (used to show that the properties below have teeth)
\* A streamed Message that does not end the call.
EndsCallNever(e) == FALSE
\* A blocking call that is sent once more after its first failure.
CallEndsOrRetries(exc) ==
    /\ cpc' = IF exc.kind # "none" /\ cpc = "blocking" /\ sent = <<>>
              THEN "blocking" ELSE "done"
    /\ raised' = exc

\* ---- Client and transport construction
\* JsonRpcClient and RestClient hand their `middleware` argument to the
\* transport client, and both sides keep `middleware or []`: one shared list
\* when the argument is non-empty, two fresh lists when it is empty.
\* GrpcClient hands no interceptors to GrpcTransportClient.
TransportInterceptors(transport, initial) ==
    IF transport \in HttpTransports THEN initial ELSE <<>>

Aliased == cfg.transport \in HttpTransports /\ interceptors # <<>>

\* _apply_interceptors: the interceptors an outbound call passes through.
\* JSON-RPC runs its list in order; REST returns the request unchanged; the
\* gRPC transport has no such step.
ApplyInterceptors(transport) ==
    IF transport = "JSONRPC" THEN interceptors ELSE <<>>

\* ---- error mapping
HTTPError(status) == Exception("ClientHTTPError", status)
JSONError == Exception("ClientJSONError", 0)

\* _send_request, _send_post_request, _send_get_request and the validation of
\* the decoded body that follows them, outside their try block.
SendRequestRaises(transport, f) ==
    CASE f.kind = "http_status" -> HTTPError(f.status)
      [] f.kind = "bad_json"    -> JSONError
      [] f.kind \in {"network", "timeout"} -> HTTPError(503)
      [] f.kind = "bad_schema"  ->
            IF transport = "JSONRPC" THEN Exception("ValidationError", 0)
            ELSE Exception("ParseError", 0)
      [] f.kind = "grpc_failure" -> Exception("RpcError", 0)
      [] OTHER -> NotRaised

\* send_message_streaming, the try block around the iteration of the stream.
StreamRaises(transport, f) ==
    CASE f.kind = "sse_error"   -> HTTPError(400)
      [] f.kind = "bad_json"    -> JSONError
      [] f.kind \in {"network", "timeout"} -> HTTPError(503)
      [] f.kind = "bad_schema"  ->
            IF transport = "JSONRPC" THEN Exception("ValidationError", 0)
            ELSE Exception("ParseError", 0)
      [] f.kind = "grpc_failure" -> Exception("RpcError", 0)
      [] OTHER -> NotRaised

\* send_message_streaming, entering `async with aconnect_sse(...)`: the
\* statement is outside the try block, so what httpx raises reaches the caller.
ConnectRaises(f) ==
    CASE f.kind = "network" -> Exception("httpx.ConnectError", 0)
      [] f.kind = "timeout" -> Exception("httpx.ConnectTimeout", 0)
      [] f.kind = "grpc_failure" -> Exception("RpcError", 0)
      [] OTHER -> NotRaised

\* A2ACardResolver.get_agent_card: the four except clauses.
CardRaises(f) ==
    CASE f.kind = "http_status" -> HTTPError(f.status)
      [] f.kind = "bad_json"    -> JSONError
      [] f.kind \in {"network", "timeout"} -> HTTPError(503)
      [] f.kind = "bad_schema"  -> JSONError
      [] OTHER -> NotRaised

\* `raise response.root.error` / `raise event.root.error` in
\* JsonRpcClient.send_message: the error object of the JSON-RPC envelope.
RpcErrorRaised == Exception("JSONRPCError", 0)

\* ---- ClientTaskManager
\* process: a Task replaces the snapshot, a status update overwrites its
\* status, an artifact update leaves the status alone; the snapshot is
\* created by the first event, whatever its kind.
Process(t, e) ==
    CASE e.kind = "task"   -> e.state
      [] e.kind = "status" -> e.state
      [] OTHER -> IF t = "none" THEN "unknown" ELSE t

\* ---- the items of Client.send_message
\* (tracker.get_task(), None if the event is a Task else the event)
Pair(t, e) == [kind |-> "pair", state |-> t,
               update |-> IF e.kind = "task" THEN "none" ELSE e.kind,
               final |-> e.final]
\* result if it is a Message else (result, None)
BlockingItem(e) ==
    IF e.kind = "message" THEN [kind |-> "message", state |-> "none",
                                update |-> "none", final |-> FALSE]
    ELSE [kind |-> "pair", state |-> e.state, update |-> "none", final |-> FALSE]
MessageItem == BlockingItem(MessageEvent)

\* Client.consume: every registered consumer is called with the item, in
\* registration order.  `nth` is the position the item has when yielded.
RECURSIVE Consume(_, _, _, _)
Consume(log, cs, item, nth) ==
    IF cs = <<>> THEN log
    ELSE Consume(Append(log, [consumer |-> Head(cs), item |-> item, nth |-> nth]),
                 Tail(cs), item, nth)

\* `if isinstance(result, Message): yield result; return`
EndsCall(e) == e.kind = "message"

\* GrpcClient.send_message passes a streamed Message to consume before it
\* yields it; JsonRpcClient and RestClient yield it at once.
ConsumesStreamedMessage(transport) == transport = "GRPC"

\* The call uses the blocking path.
UsesBlocking == ~cfg.streaming \/ ~cfg.cardStreaming

OutboundCall(mode) == [op |-> cfg.op, mode |-> mode,
                       passed |-> ApplyInterceptors(cfg.transport)]

CallEnds(exc) ==
    /\ cpc' = "done"
    /\ raised' = exc

\* ---- actions
\* Client.add_request_middleware, before the call.
AddRequestMiddleware ==
    /\ cpc = "idle"
    /\ cfg.op # "get_agent_card"
    /\ "i2" \notin {middleware[i] : i \in DOMAIN middleware}
    /\ middleware' = Append(middleware, "i2")
    /\ interceptors' = IF Aliased THEN Append(interceptors, "i2") ELSE interceptors
    /\ UNCHANGED <<cfg, consumers, cpc, fed, task, yielded, notified, sent, cause, raised>>
    /\ UNCHANGED <<qvars, xvars>>

\* Client.add_event_consumer, before the call.
AddEventConsumer ==
    /\ cpc = "idle"
    /\ cfg.op = "send_message"
    /\ "c2" \notin {consumers[i] : i \in DOMAIN consumers}
    /\ consumers' = Append(consumers, "c2")
    /\ UNCHANGED <<cfg, middleware, interceptors, cpc, fed, task, yielded, notified,
                   sent, cause, raised>>
    /\ UNCHANGED <<qvars, xvars>>

\* The call begins.  RestClient.send_message first builds its configuration
\* from MessageSendConfiguration, a name rest_client.py neither imports nor
\* defines: the call raises NameError before it reaches the transport.
Start ==
    /\ cpc = "idle"
    /\ IF cfg.op = "get_agent_card"
       THEN cpc' = "card" /\ raised' = raised
       ELSE IF cfg.op = "get_task"
       THEN cpc' = "blocking" /\ raised' = raised
       ELSE IF cfg.transport = "REST"
       THEN CallEnds(Exception("NameError", 0))
       ELSE IF UsesBlocking
       THEN cpc' = "blocking" /\ raised' = raised
       ELSE cpc' = "connect" /\ raised' = raised
    /\ UNCHANGED <<cfg, middleware, interceptors, consumers, fed, task, yielded,
                   notified, sent, cause>>
    /\ UNCHANGED <<qvars, xvars>>

\* transport.send_message / transport.get_task answered with a result.
BlockingReply(e) ==
    /\ cpc = "blocking"
    /\ sent' = Append(sent, OutboundCall("blocking"))
    /\ CallEnds(NotRaised)
    /\ IF cfg.op = "send_message"
       THEN /\ notified' = Consume(notified, consumers, BlockingItem(e), Len(yielded) + 1)
            /\ yielded' = Append(yielded, BlockingItem(e))
       ELSE UNCHANGED <<notified, yielded>>
    /\ UNCHANGED <<cfg, middleware, interceptors, consumers, fed, task, cause>>
    /\ UNCHANGED <<qvars, xvars>>

\* The blocking call failed.  A JSON-RPC error envelope is returned by the
\* transport; JsonRpcClient.send_message raises its error.
BlockingFails(f) ==
    /\ cpc = "blocking"
    /\ sent' = Append(sent, OutboundCall("blocking"))
    /\ cause' = f
    /\ CallEnds(IF f.kind = "rpc_error"
                THEN IF cfg.op = "send_message" THEN RpcErrorRaised ELSE NotRaised
                ELSE SendRequestRaises(cfg.transport, f))
    /\ UNCHANGED <<cfg, middleware, interceptors, consumers, fed, task, yielded, notified>>
    /\ UNCHANGED <<qvars, xvars>>

\* transport.send_message_streaming opened the stream.
Connect ==
    /\ cpc = "connect"
    /\ sent' = Append(sent, OutboundCall("streaming"))
    /\ cpc' = "stream"
    /\ UNCHANGED <<cfg, middleware, interceptors, consumers, fed, task, yielded,
                   notified, cause, raised>>
    /\ UNCHANGED <<qvars, xvars>>

\* Opening the stream failed.  No code reads the status of the response: a
\* non-2xx answer that is not an event stream makes the iteration raise
\* SSEError, one that is an event stream is iterated like any other.
ConnectFails(f) ==
    /\ cpc = "connect"
    /\ sent' = Append(sent, OutboundCall("streaming"))
    /\ cause' = f
    /\ IF f.kind = "http_status"
       THEN \/ CallEnds(StreamRaises(cfg.transport, Failure("sse_error", "stream", 0)))
            \/ cpc' = "stream" /\ raised' = raised
       ELSE CallEnds(ConnectRaises(f))
    /\ UNCHANGED <<cfg, middleware, interceptors, consumers, fed, task, yielded, notified>>
    /\ UNCHANGED <<qvars, xvars>>

\* One iteration of `async for event in transport.send_message_streaming(...)`.
Receive(e) ==
    /\ cpc = "stream"
    /\ Len(fed) < MaxStream
    /\ fed' = Append(fed, e)
    /\ IF EndsCall(e)
       THEN /\ notified' = IF ConsumesStreamedMessage(cfg.transport)
                           THEN Consume(notified, consumers, MessageItem, Len(yielded) + 1)
                           ELSE notified
            /\ yielded' = Append(yielded, MessageItem)
            /\ task' = task
            /\ CallEnds(NotRaised)
       ELSE /\ task' = Process(task, e)
            /\ notified' = Consume(notified, consumers, Pair(task', e), Len(yielded) + 1)
            /\ yielded' = Append(yielded, Pair(task', e))
            /\ UNCHANGED <<cpc, raised>>
    /\ UNCHANGED <<cfg, middleware, interceptors, consumers, sent, cause>>
    /\ UNCHANGED <<qvars, xvars>>

\* The stream broke.
StreamFails(f) ==
    /\ cpc = "stream"
    /\ cause.kind = "none"
    /\ cause' = f
    /\ CallEnds(IF f.kind = "rpc_error" THEN RpcErrorRaised
                ELSE StreamRaises(cfg.transport, f))
    /\ UNCHANGED <<cfg, middleware, interceptors, consumers, fed, task, yielded,
                   notified, sent>>
    /\ UNCHANGED <<qvars, xvars>>

\* The server closed the stream.
StreamEnds ==
    /\ cpc = "stream"
    /\ CallEnds(NotRaised)
    /\ UNCHANGED <<cfg, middleware, interceptors, consumers, fed, task, yielded,
                   notified, sent, cause>>
    /\ UNCHANGED <<qvars, xvars>>

\* A2ACardResolver.get_agent_card.
ResolveCard ==
    /\ cpc = "card"
    /\ \/ CallEnds(NotRaised) /\ cause' = cause
       \/ \E f \in Failures("REST", "card") : cause' = f /\ CallEnds(CardRaises(f))
    /\ sent' = Append(sent, [op |-> "get_agent_card", mode |-> "blocking", passed |-> <<>>])
    /\ UNCHANGED <<cfg, middleware, interceptors, consumers, fed, task, yielded, notified>>
    /\ UNCHANGED <<qvars, xvars>>

\* A client after construction: a transport, an operation, the two streaming
\* switches, and the interceptor list it was built with.
ClientInit ==
    /\ QueueInit
    /\ NoOthers
    /\ \E tr \in Transports, op \in ClientOps, s \in BOOLEAN, cs \in BOOLEAN,
          initial \in {<<>>, <<"i1">>} :
        /\ op = "get_agent_card" => tr = "JSONRPC" /\ ~s /\ ~cs /\ initial = <<>>
        /\ op = "get_task" => ~s /\ ~cs
        /\ cfg = [transport |-> tr, op |-> op, streaming |-> s, cardStreaming |-> cs]
        /\ middleware = initial
        /\ interceptors = TransportInterceptors(tr, initial)
    /\ consumers = <<"c1">>
    /\ cpc = "idle"
    /\ fed = <<>>
    /\ task = "none"
    /\ yielded = <<>>
    /\ notified = <<>>
    /\ sent = <<>>
    /\ cause = NoFailure
    /\ raised = NotRaised

ClientNext ==
    \/ AddRequestMiddleware
    \/ AddEventConsumer
    \/ Start
    \/ \E e \in {TaskEvent, MessageEvent} : BlockingReply(e)
    \/ \E f \in Failures(cfg.transport, "blocking") : BlockingFails(f)
    \/ Connect
    \/ \E f \in Failures(cfg.transport, "connect") : ConnectFails(f)
    \/ \E e \in StreamEvents : Receive(e)
    \/ \E f \in Failures(cfg.transport, "stream") : StreamFails(f)
    \/ StreamEnds
    \/ ResolveCard

ClientSpec == ClientInit /\ [][ClientNext]_vars

\* ---- Client.send_message as a function of the stream
\* What send_message yields and whom it notifies, on transport `tr`, for the
\* events `events` of a streaming call: the loop of Receive, run to the end.
RECURSIVE StreamRun(_, _, _, _, _, _)
StreamRun(tr, events, cs, t, ys, ns) ==
    IF events = <<>> THEN [yielded |-> ys, notified |-> ns]
    ELSE LET e == Head(events) IN
         IF EndsCall(e)
         THEN [yielded |-> Append(ys, MessageItem),
               notified |-> IF ConsumesStreamedMessage(tr)
                            THEN Consume(ns, cs, MessageItem, Len(ys) + 1) ELSE ns]
         ELSE StreamRun(tr, Tail(events), cs, Process(t, e),
                        Append(ys, Pair(Process(t, e), e)),
                        Consume(ns, cs, Pair(Process(t, e), e), Len(ys) + 1))

SendMessage(tr, events, cs) ==
    IF tr = "REST" THEN [yielded |-> <<>>, notified |-> <<>>]
    ELSE StreamRun(tr, events, cs, "none", <<>>, <<>>)

\* ---- observations on a client call
Streaming == cfg.op = "send_message" /\ ~UsesBlocking
CallsOf(mode) == {k \in DOMAIN sent : sent[k].mode = mode}
FinalItem(item) == item.update = "status" /\ item.final

\* ------------------------------------------------------------ client claims

\* C11: once the Task the client materializes from the stream has reached a
\* terminal state, no later event of the stream changes that state: every
\* later pair carries the same state.
C11_TerminalStateKept ==
    \A i, j \in DOMAIN yielded :
        (i < j /\ yielded[i].kind = "pair" /\ yielded[i].state \in Terminal
               /\ yielded[j].kind = "pair")
            => yielded[j].state = yielded[i].state

\* C12: every item Client.send_message has yielded was passed, as that item,
\* to every registered consumer.
C12_ConsumedBeforeYielded ==
    \A i \in DOMAIN yielded : \A k \in DOMAIN consumers :
        \E n \in DOMAIN notified :
            notified[n] = [consumer |-> consumers[k], item |-> yielded[i], nth |-> i]

\* C13: a streaming send_message yields nothing after the item of a status
\* update with final = true.
C13_EndsAtFinal ==
    \A i, j \in DOMAIN yielded : i < j => ~FinalItem(yielded[i])

\* C14: in a streaming call a Message is the last event the call takes from
\* the stream: it is yielded as the last item, the call is over, and no
\* consumer is notified of anything after it.
C14_MessageEndsCall ==
    Streaming =>
        \A i \in DOMAIN fed :
            fed[i].kind = "message" =>
                /\ i = Len(fed)
                /\ cpc = "done"
                /\ Len(yielded) = i
                /\ yielded[i] = MessageItem
                /\ \A n \in DOMAIN notified : notified[n].nth <= i

\* A streamed Message arrived after two other events, with room left in the
\* stream, and the call is over.
C14_Witness ==
    /\ Streaming
    /\ Len(fed) = 2
    /\ fed[1].kind = "task"
    /\ fed[2].kind = "message"
    /\ cpc = "done"
    /\ Len(fed) < MaxStream

\* C15: with streaming disabled in the configuration or absent from the card,
\* a finished send_message made exactly one blocking call on the transport,
\* no streaming call, and yielded exactly one item unless the call failed.
C15_OneBlockingCall ==
    (cfg.op = "send_message" /\ UsesBlocking /\ cpc = "done") =>
        /\ Cardinality(CallsOf("blocking")) = 1
        /\ CallsOf("streaming") = {}
        /\ raised.kind = "none" => Len(yielded) = 1

\* C16: every outbound call of the client passed through every interceptor
\* registered on the client, those added after construction included, in
\* registration order.
C16_AllInterceptorsRun ==
    \A k \in DOMAIN sent :
        sent[k].op # "get_agent_card" => sent[k].passed = middleware

\* C17: for the events a streaming call has delivered, the items yielded and
\* the consumer notifications are the same on the three transports.
C17_TransportsAgree ==
    Streaming =>
        \A tr \in Transports :
            SendMessage(tr, fed, consumers) = SendMessage(cfg.transport, fed, consumers)

\* C18: the caller observes no other error kind than ClientHTTPError and
\* ClientJSONError.
C18_OnlyTwoErrorKinds ==
    raised.kind \in {"none", "ClientHTTPError", "ClientJSONError"}

\* C19: a call that timed out ends with the dedicated timeout error.
C19_TimeoutError ==
    (cpc = "done" /\ cause.kind = "timeout") => raised.kind = "ClientTimeoutError"

\* C20: on the HTTP transports and in the card resolver a failure is mapped
\* by its kind: a non-2xx response to ClientHTTPError with that status, a
\* network failure to ClientHTTPError 503, an SSE protocol failure to
\* ClientHTTPError 400, an unparsable body to ClientJSONError.
C20_MappedByKind ==
    (cpc = "done" /\ cfg.transport \in HttpTransports) =>
        /\ cause.kind = "http_status" => raised = HTTPError(cause.status)
        /\ cause.kind = "network" => raised = HTTPError(503)
        /\ cause.kind = "sse_error" => raised = HTTPError(400)
        /\ cause.kind = "bad_json" => raised = JSONError

MaxList == 2        \* entries of a transport list at most
MaxRegister == 1    \* calls of ClientFactory.register at most

\* Transports: the three standard labels; "X" is a custom transport.
CoreLabels == {"JSONRPC", "HTTP+JSON", "GRPC"}
Labels == CoreLabels \cup {"X"}

\* The lists of at most n different labels.
Lists(n) ==
    {l \in UNION {[1..k -> Labels] : k \in 0..n} :
        \A i, j \in DOMAIN l : i # j => l[i] # l[j]}

Entries(l) == {l[i] : i \in DOMAIN l}

\* ---- fault variants (used to show that the properties below have teeth)
\* The first entry of the other list that is in the ordering list.
RECURSIVE FirstInSwapped(_, _)
FirstInSwapped(order, other) ==
    IF other = <<>> THEN "None"
    ELSE IF Head(other) \in Entries(order) THEN Head(other)
    ELSE FirstInSwapped(order, Tail(other))

\* ---- ClientFactory
\* __init__: the producers registered for the core transports named in
\* config.supported_transports.
Producer(t) ==
    CASE t = "JSONRPC"   -> "NewJsonRpcClient"
      [] t = "HTTP+JSON" -> "NewRestfulClient"
      [] t = "GRPC"      -> "NewGrpcClient"
      [] OTHER           -> "None"

DefaultRegistry(supported) ==
    [t \in CoreLabels \cap Entries(supported) |-> Producer(t)]

\* server_set: card.preferred_transport or 'JSONRPC', then the transports of
\* card.additional_interfaces.
ServerSet(c) ==
    <<IF c.preferred_transport = "None" THEN "JSONRPC" ELSE c.preferred_transport>>
        \o c.additional_interfaces

\* client_set: config.supported_transports or ['JSONRPC'].
ClientSet(f) ==
    IF f.supported_transports = <<>> THEN <<"JSONRPC">> ELSE f.supported_transports

\* `for x in order: if x in other: transport = x; break`
RECURSIVE FirstIn(_, _)
FirstIn(order, other) ==
    IF order = <<>> THEN "None"
    ELSE IF Head(order) \in Entries(other) THEN Head(order)
    ELSE FirstIn(Tail(order), other)

\* The transport create settles on.
Negotiate(f, c) ==
    IF f.use_client_preference
    THEN FirstIn(ClientSet(f), ServerSet(c))
    ELSE FirstIn(ServerSet(c), ClientSet(f))

NotCreated == [outcome |-> "none", transport |-> "None", producer |-> "None"]

\* ClientFactory.register(label, generator), with a custom producer.
RegisterProducer(l) ==
    /\ created = NotCreated
    /\ factory.registered < MaxRegister
    /\ factory' = [factory EXCEPT
                      !.registry = [t \in DOMAIN factory.registry \cup {l} |->
                                       IF t = l THEN "NewCustomClient"
                                       ELSE factory.registry[t]],
                      !.registered = @ + 1]
    /\ UNCHANGED <<card, created>>
    /\ UNCHANGED <<qvars, cvars, pvars, avars, svars, yvars, zvars>>

\* ClientFactory.create(card).
Create ==
    /\ created = NotCreated
    /\ LET transport == Negotiate(factory, card) IN
       created' =
          IF transport = "None"
          THEN [outcome |-> "no compatible transports found.",
                transport |-> "None", producer |-> "None"]
          ELSE IF transport \notin DOMAIN factory.registry
          THEN [outcome |-> "no client available", transport |-> transport,
                producer |-> "None"]
          ELSE [outcome |-> "client", transport |-> transport,
                producer |-> factory.registry[transport]]
    /\ UNCHANGED <<factory, card>>
    /\ UNCHANGED <<qvars, cvars, pvars, avars, svars, yvars, zvars>>

\* A factory after construction and the card it will be asked about.
FactoryInit ==
    /\ QueueInit
    /\ NoFurther
    /\ NoClient
    /\ NoPush
    /\ NoAuth
    /\ NoServer
    /\ \E supported \in Lists(MaxList), ucp \in BOOLEAN :
        factory = [supported_transports |-> supported, use_client_preference |-> ucp,
                   registry |-> DefaultRegistry(supported), registered |-> 0]
    /\ \E preferred \in Labels \cup {"None"}, additional \in Lists(MaxList) :
        card = [preferred_transport |-> preferred, additional_interfaces |-> additional]
    /\ created = NotCreated

FactoryNext ==
    \/ \E l \in Labels : RegisterProducer(l)
    \/ Create

FactorySpec == FactoryInit /\ [][FactoryNext]_vars

\* ---- observations on the factory
\* t is the first entry of `order` that is also in `other`.
IsFirstCommon(t, order, other) ==
    \E i \in DOMAIN order :
        /\ order[i] = t
        /\ t \in Entries(other)
        /\ \A j \in 1..(i - 1) : order[j] \notin Entries(other)

Common == Entries(ClientSet(factory)) \cap Entries(ServerSet(card))

\* ----------------------------------------------------------- factory claims

\* C22: the transport create settles on is, with use_client_preference, the
\* first entry of the client's list that the server offers, and otherwise the
\* first entry of the server's list (preferred transport, then additional
\* interfaces) that the client supports.
C22_OrderedPreference ==
    (created.outcome # "none" /\ created.transport # "None") =>
        IF factory.use_client_preference
        THEN IsFirstCommon(created.transport, ClientSet(factory), ServerSet(card))
        ELSE IsFirstCommon(created.transport, ServerSet(card), ClientSet(factory))

\* The server prefers GRPC and also offers JSONRPC, the client lists JSONRPC
\* before GRPC: by the server's order the client made is the gRPC one.
C22_Witness ==
    /\ ~factory.use_client_preference
    /\ factory.supported_transports = <<"JSONRPC", "GRPC">>
    /\ ServerSet(card) = <<"GRPC", "JSONRPC">>
    /\ created.outcome = "client"
    /\ created.transport = "GRPC"

\* C23: create fails with "no compatible transports" exactly when the two
\* lists have no common entry, and otherwise returns a client whose transport
\* is in both lists.
C23_FailsOnlyWithoutCommon ==
    created.outcome # "none" =>
        /\ created.outcome = "no compatible transports found." <=> Common = {}
        /\ Common # {} => created.outcome = "client" /\ created.transport \in Common

\* C24: a factory built from a config with an empty supported_transports
\* list, with nothing registered by hand, returns a JSON-RPC client for a
\* card that offers JSONRPC.
C24_EmptyMeansJsonRpc ==
    (/\ created.outcome # "none"
     /\ factory.supported_transports = <<>>
     /\ factory.registered = 0
     /\ "JSONRPC" \in Entries(ServerSet(card)))
        => created.outcome = "client" /\ created.producer = "NewJsonRpcClient"

\* ================================================ the push-notification sender
\* One BasePushNotificationSender over one config store, in-memory or
\* database-backed.  The store is written by set_info and delete_info; one
\* call of send_notification reads it and posts.

MaxStoreCalls == 2      \* calls of set_info and delete_info at most

StoreKinds == {"memory", "database"}
PushTasks == {"t1", "t2"}
ConfigIds == {"None", "k1"}
Urls == {"u1", "u2"}
PushConfigs == [id : ConfigIds, url : Urls]
PostOutcomes == {"ok", "status_error", "raises"}

\* ---- fault variants (used to show that the properties below have teeth)
\* A POST whose failure is not caught.
DispatchRaisesThrough(outcome) == IF outcome = "ok" THEN "none" ELSE "Exception"

\* ---- the config stores
\* InMemoryPushNotificationConfigStore.set_info: one config per task id.
\* DatabasePushNotificationConfigStore.set_info: a config without id takes the
\* task id as its id; the row (task id, config id) is inserted or replaced.
SetInfo(kind, infos, t, c) ==
    IF kind = "memory" THEN [infos EXCEPT ![t] = {c}]
    ELSE LET saved == IF c.id = "None" THEN [c EXCEPT !.id = t] ELSE c IN
         [infos EXCEPT ![t] = {x \in @ : x.id # saved.id} \cup {saved}]

\* delete_info(task_id) and, database only, delete_info(task_id, config_id).
DeleteInfo(kind, infos, t, k) ==
    IF kind = "memory" \/ k = "None" THEN [infos EXCEPT ![t] = {}]
    ELSE [infos EXCEPT ![t] = {x \in @ : x.id # k}]

\* get_info: the in-memory store returns the config itself or None, the
\* database store a list of configs.
GetInfo(kind, infos, t) ==
    IF kind = "memory"
    THEN IF infos[t] = {} THEN [shape |-> "None", configs |-> {}]
         ELSE [shape |-> "config", configs |-> infos[t]]
    ELSE [shape |-> "list", configs |-> infos[t]]

\* _dispatch_notification: `except Exception` after the POST and
\* raise_for_status; whatever the POST did, nothing is raised.
DispatchRaises(outcome) == "none"

Idle == [pc |-> "idle", task |-> "None", configs |-> {}, todo |-> {}, raised |-> "none"]

\* ---- actions
StoreSetInfo(t, c) ==
    /\ store.calls < MaxStoreCalls
    /\ sending.pc = "idle"
    /\ store' = [store EXCEPT !.infos = SetInfo(store.kind, @, t, c), !.calls = @ + 1]
    /\ UNCHANGED <<sending, posts>>
    /\ UNCHANGED <<qvars, cvars, fvars, avars, svars, yvars, zvars>>

StoreDeleteInfo(t, k) ==
    /\ store.calls < MaxStoreCalls
    /\ sending.pc = "idle"
    /\ store.kind = "memory" => k = "None"
    /\ store' = [store EXCEPT !.infos = DeleteInfo(store.kind, @, t, k), !.calls = @ + 1]
    /\ UNCHANGED <<sending, posts>>
    /\ UNCHANGED <<qvars, cvars, fvars, avars, svars, yvars, zvars>>

\* send_notification(task) up to the loop.  `if not push_configs: return`
\* leaves on None and on the empty list.  `for push_info in push_configs`
\* over the single config of the in-memory store iterates the fields of the
\* pydantic model: push_info is a (name, value) tuple, and `push_info.url`,
\* before the try block of _dispatch_notification, raises AttributeError.
SendNotification(t) ==
    /\ sending.pc = "idle"
    /\ LET push_configs == GetInfo(store.kind, store.infos, t) IN
       sending' =
          IF push_configs.configs = {}
          THEN [pc |-> "returned", task |-> t, configs |-> {}, todo |-> {},
                raised |-> "none"]
          ELSE IF push_configs.shape = "config"
          THEN [pc |-> "raised", task |-> t, configs |-> push_configs.configs, todo |-> {},
                raised |-> "AttributeError"]
          ELSE [pc |-> "dispatch", task |-> t, configs |-> push_configs.configs,
                todo |-> push_configs.configs, raised |-> "none"]
    /\ UNCHANGED <<store, posts>>
    /\ UNCHANGED <<qvars, cvars, fvars, avars, svars, yvars, zvars>>

\* One iteration of the loop: _dispatch_notification(task, push_info).
Dispatch(c, outcome) ==
    /\ sending.pc = "dispatch"
    /\ c \in sending.todo
    /\ posts' = Append(posts, [url |-> c.url, task |-> sending.task, outcome |-> outcome])
    /\ sending' =
          IF DispatchRaises(outcome) # "none"
          THEN [sending EXCEPT !.pc = "raised", !.raised = DispatchRaises(outcome)]
          ELSE [sending EXCEPT !.todo = @ \ {c},
                               !.pc = IF sending.todo = {c} THEN "returned" ELSE @]
    /\ UNCHANGED store
    /\ UNCHANGED <<qvars, cvars, fvars, avars, svars, yvars, zvars>>

PushInit ==
    /\ QueueInit
    /\ NoFurther
    /\ NoClient
    /\ NoFactory
    /\ NoAuth
    /\ NoServer
    /\ \E k \in StoreKinds : store = [kind |-> k, infos |-> [t \in PushTasks |-> {}],
                                      calls |-> 0]
    /\ sending = Idle
    /\ posts = <<>>

PushNext ==
    \/ \E t \in PushTasks, c \in PushConfigs : StoreSetInfo(t, c)
    \/ \E t \in PushTasks, k \in ConfigIds : StoreDeleteInfo(t, k)
    \/ \E t \in PushTasks : SendNotification(t)
    \/ \E c \in PushConfigs \cup [id : PushTasks, url : Urls], o \in PostOutcomes :
          Dispatch(c, o)

PushSpec == PushInit /\ [][PushNext]_vars

\* ---- observations on the sender
PostsTo(u) == {i \in DOMAIN posts : posts[i].url = u}
ConfigsTo(u) == {c \in sending.configs : c.url = u}
Finished == sending.pc \in {"returned", "raised"}

\* -------------------------------------------------------------- push claims

\* C25: no POST makes send_notification raise, whether it succeeded, came
\* back with a failure status or raised: once a POST was made nothing is
\* raised, and when the call has returned every config read for the task was
\* attempted, the ones after a failed POST included.
C25_FailuresSwallowed ==
    /\ posts # <<>> => sending.raised = "none"
    /\ sending.pc = "returned" => Len(posts) = Cardinality(sending.configs)

\* The first of two POSTs raised, the second was made, and the call returned.
C25_Witness ==
    /\ sending.pc = "returned"
    /\ Len(posts) = 2
    /\ posts[1].outcome = "raises"
    /\ sending.raised = "none"

\* C26: a finished send_notification for task t has made one POST of t per
\* config stored for t, each to the url of its config, and none when no
\* config is stored for t.
C26_PostsPerConfig ==
    Finished =>
        /\ \A i \in DOMAIN posts : posts[i].task = sending.task
        /\ \A u \in Urls : Cardinality(PostsTo(u)) = Cardinality(ConfigsTo(u))
        /\ Len(posts) = Cardinality(store.infos[sending.task])

\* ========================================================= the auth interceptor
\* AuthInterceptor.intercept as a function of the card, the credentials the
\* service holds, and the request: drawn in the initial state, applied once.

MaxRequirements == 2    \* security requirements of a card at most

SchemeNames == {"s1", "s2"}
\* HTTPAuthSecurityScheme with scheme bearer or basic, OAuth2SecurityScheme,
\* OpenIdConnectSecurityScheme, APIKeySecurityScheme in header or in query.
SchemeTypes == {"http_bearer", "http_basic", "oauth2", "openIdConnect",
                "apiKey_header", "apiKey_query"}

\* A requirement names one or two schemes; a card lists requirements.
Requirements ==
    {<<n>> : n \in SchemeNames}
        \cup {p \in SchemeNames \X SchemeNames : p[1] # p[2]}
Securities == UNION {[1..k -> Requirements] : k \in 0..MaxRequirements}

\* ---- fault variants (used to show that the properties below have teeth)
\* A credential service whose answer is never tested.
UsableAlways(credential) == TRUE

\* ---- AuthInterceptor
\* `if credential`
Usable(credential) == credential # "None"

\* A header value: a prefix and a credential.  f"Bearer {credential}", and
\* the credential as it is.
Bearer(credential) == <<"Bearer ", credential>>
Plain(credential) == <<"", credential>>

NotIntercepted == [done |-> FALSE, payload |-> "none", http_kwargs |-> [headers |-> {}]]
Returned(req) == [done |-> TRUE, payload |-> req.payload, http_kwargs |-> req.http_kwargs]

\* headers[name] = value
SetHeader(headers, name, value) ==
    {h \in headers : h[1] # name} \cup {<<name, value>>}

\* The header one scheme adds: a name and a value, or nothing.  There is a
\* branch for HTTPAuthSecurityScheme with scheme bearer, for
\* OAuth2SecurityScheme and for APIKeySecurityScheme in the header; every
\* other scheme falls through.
HeaderFor(type, scheme_name, credential) ==
    CASE type = "http_bearer"   -> <<"Authorization", Bearer(credential)>>
      [] type = "oauth2"        -> <<"Authorization", Bearer(credential)>>
      [] type = "apiKey_header" -> <<"X-API-Key-" \o scheme_name, Plain(credential)>>
      [] OTHER                  -> <<>>

\* `for requirement in agent_card.security: for scheme_name in requirement`
RECURSIVE SchemeNamesOf(_)
SchemeNamesOf(security) ==
    IF security = <<>> THEN <<>>
    ELSE Head(security) \o SchemeNamesOf(Tail(security))

\* A loop that goes on after a scheme has set its header: every scheme with a
\* credential and a branch contributes.
RECURSIVE VisitEvery(_, _, _, _)
VisitEvery(names, ac, creds, req) ==
    IF names = <<>> THEN req
    ELSE LET scheme_name == Head(names)
             credential == creds[scheme_name]
             header == IF scheme_name \in DOMAIN ac.securitySchemes
                       THEN HeaderFor(ac.securitySchemes[scheme_name], scheme_name,
                                      credential)
                       ELSE <<>>
         IN IF Usable(credential) /\ header # <<>>
            THEN VisitEvery(Tail(names), ac, creds,
                            [req EXCEPT !.http_kwargs.headers =
                                            SetHeader(@, header[1], header[2])])
            ELSE VisitEvery(Tail(names), ac, creds, req)

\* The loop body over the scheme names still to visit: the first scheme that
\* has a credential, is defined by the card and has a branch sets its header
\* and returns.
RECURSIVE Visit(_, _, _, _)
Visit(names, ac, creds, req) ==
    IF names = <<>> THEN req
    ELSE LET scheme_name == Head(names)
             credential == creds[scheme_name]
             header == IF scheme_name \in DOMAIN ac.securitySchemes
                       THEN HeaderFor(ac.securitySchemes[scheme_name], scheme_name,
                                      credential)
                       ELSE <<>>
         IN IF Usable(credential) /\ header # <<>>
            THEN [req EXCEPT !.http_kwargs.headers = SetHeader(@, header[1], header[2])]
            ELSE Visit(Tail(names), ac, creds, req)

\* intercept(method_name, request_payload, http_kwargs, agent_card, context)
InterceptRequest(ac, creds, req) ==
    IF ac.security = <<>> \/ DOMAIN ac.securitySchemes = {}
    THEN req
    ELSE Visit(SchemeNamesOf(ac.security), ac, creds, req)

Intercept ==
    /\ intercepted = NotIntercepted
    /\ intercepted' = Returned(InterceptRequest(agent_card, credentials, request))
    /\ UNCHANGED <<agent_card, credentials, request>>
    /\ UNCHANGED <<qvars, cvars, fvars, pvars, svars, yvars, zvars>>

AuthInit ==
    /\ QueueInit
    /\ NoFurther
    /\ NoClient
    /\ NoFactory
    /\ NoPush
    /\ NoServer
    /\ \E security \in Securities, defined \in SUBSET SchemeNames :
        \E schemes \in [defined -> SchemeTypes] :
            agent_card = [security |-> security, securitySchemes |-> schemes]
    /\ \E held \in SUBSET SchemeNames :
        credentials = [n \in SchemeNames |-> IF n \in held THEN "token-" \o n ELSE "None"]
    /\ \E headers \in {{}, {<<"Authorization", Plain("old")>>}} :
        request = [payload |-> "payload", http_kwargs |-> [headers |-> headers]]
    /\ intercepted = NotIntercepted

AuthNext == Intercept

AuthSpec == AuthInit /\ [][AuthNext]_vars

\* ---- observations on the interceptor
Required == {SchemeNamesOf(agent_card.security)[i] :
                i \in DOMAIN SchemeNamesOf(agent_card.security)}
WithCredential == {n \in Required : credentials[n] # "None"}
TypeOf(n) == IF n \in DOMAIN agent_card.securitySchemes
             THEN agent_card.securitySchemes[n] ELSE "undefined"

\* -------------------------------------------------------------- auth claims

\* C27: when the credential service holds no credential for any scheme the
\* card's security requirements name, or the card declares no security,
\* intercept returns the payload and the HTTP arguments as it received them.
C27_NoCredentialNoChange ==
    (intercepted.done /\ WithCredential = {}) => intercepted = Returned(request)

\* The card requires a bearer scheme it defines, the service holds nothing
\* for it, and the request came back as it was.
C27_Witness ==
    /\ intercepted.done
    /\ agent_card.security = <<<<"s1">>>>
    /\ TypeOf("s1") = "http_bearer"
    /\ credentials["s1"] = "None"
    /\ intercepted = Returned(request)

\* C28: when every scheme with a credential is an OAuth2 or OpenID Connect
\* scheme of the card, the request leaves with the header
\* Authorization: Bearer <credential> of one of them.
C28_BearerEquivalent ==
    (/\ intercepted.done
     /\ WithCredential # {}
     /\ \A n \in WithCredential : TypeOf(n) \in {"oauth2", "openIdConnect"})
        => \E n \in WithCredential :
              <<"Authorization", Bearer(credentials[n])>>
                  \in intercepted.http_kwargs.headers

\* ---------------------------------------------------------------------
\* The REST application: RESTApplication (apps/rest/rest_app.py) in front of
\* RESTHandler (request_handlers/rest_handler.py), which calls the
\* RequestHandler of the agent.

MaxCalls == 2    \* requests the application handles in a behaviour

\* Messages an exception can carry.
Texts == {"m1", "m2"}

\* The structured protocol errors.
ErrorKinds == {"TaskNotFoundError", "UnsupportedOperationError",
               "InvalidRequestError", "JSONParseError", "InternalError"}

\* The `data` of an error built without one.
NoData == <<"none", "">>

\* A field the body of an answer does not have.
Absent == <<"absent", "">>

\* An error built with no argument carries the message its kind defaults to.
DefaultError(kind) == [kind |-> kind, message |-> <<"default", kind>>, data |-> NoData]

\* The errors a ServerError can wrap.
ProtocolErrors ==
    UNION {{[kind |-> k, message |-> m, data |-> NoData] :
               m \in {<<"default", k>>} \cup {<<"text", t>> : t \in Texts}} :
           k \in ErrorKinds}

\* A Python exception: its class, its message, the protocol error it wraps.
PyException(type, text, error) == [type |-> type, text |-> text, error |-> error]

\* The exceptions, other than ServerError, that the error mapping tells apart:
\* "Exception" stands for every class it has no branch for.
HandlerKinds == {"MethodNotImplementedError", "JSONDecodeError",
                 "ValidationError", "Exception"}

\* What the RequestHandler of the agent can raise.
HandlerRaises ==
    {PyException(ty, t, NoError) : ty \in HandlerKinds, t \in Texts}
    \cup {PyException("ServerError", "", e) : e \in ProtocolErrors \cup {NoError}}

\* What the RequestHandler does when called: it returns a result, returns
\* None, or raises.
HandlerOutcomes ==
    {[do |-> "returns", value |-> v, exc |-> NoException] : v \in {"result", "None"}}
    \cup {[do |-> "raises", value |-> "None", exc |-> x] : x \in HandlerRaises}

\* The methods of RESTHandler.
BlockingMethods == {"on_message_send", "on_cancel_task", "on_get_task",
                    "get_push_notification", "set_push_notification",
                    "list_push_notifications", "list_tasks"}
StreamingMethods == {"on_message_send_stream", "on_resubscribe_to_task"}

\* The methods RESTApplication.routes() attaches to a path: on_cancel_task is
\* not among them.
Routes == (BlockingMethods \cup StreamingMethods) \ {"on_cancel_task"}

\* The methods that parse the body of the request.
ParsesBody == {"on_message_send", "on_message_send_stream", "set_push_notification"}

\* The methods under the @validate decorator.
Validated == {"on_message_send_stream", "on_resubscribe_to_task",
              "set_push_notification"}

\* The methods that reach the RequestHandler once the request is parsed.
CallsHandler == {"on_message_send", "on_message_send_stream",
                 "on_resubscribe_to_task", "on_cancel_task", "on_get_task",
                 "get_push_notification"}

\* What `raise A2AError(error=...)` raises. a2a/types.py is not part of the
\* sources: the statement raises an A2AError if the class is an exception,
\* a TypeError if it is a data model (raising a non-exception), and a
\* ValidationError if the model rejects the keyword.
A2ABuilds == {"exception", "model", "strict"}

RaiseA2AError(error, build) ==
    CASE build = "exception" -> PyException("A2AError", "", error)
      [] build = "model" -> PyException("TypeError", "not BaseException", NoError)
      [] OTHER -> PyException("ValidationError", "A2AError", NoError)

\* `e.error if e.error else InternalError()`
ErrorOr(error) == IF error = NoError THEN DefaultError("InternalError") ELSE error

\* The `except ServerError as e` clause around the body of a method: any
\* other exception passes through.
ExceptServerError(exc, build) ==
    IF exc.type = "ServerError" THEN RaiseA2AError(ErrorOr(exc.error), build)
    ELSE exc

\* What a method of RESTHandler does: it returns JSON or raises.
Return(value) == [value |-> value, exc |-> NoException]
Raise(exc) == [value |-> "none", exc |-> exc]

\* google.protobuf.json_format.Parse on a body that is not the JSON of the message.
ParseError == PyException("ParseError", "Failed to load JSON", NoError)

\* The @validate decorator when the agent lacks the capability.
ValidateFails ==
    PyException("ServerError", "",
                [kind |-> "UnsupportedOperationError",
                 message |-> <<"text", "not supported by the agent">>,
                 data |-> NoData])

\* RESTHandler.on_message_send
OnMessageSend(req) ==
    IF req.body = "invalid" THEN Raise(ParseError)
    ELSE IF req.outcome.do = "raises"
         THEN Raise(ExceptServerError(req.outcome.exc, req.build))
         ELSE Return("json")

\* RESTHandler.on_cancel_task and RESTHandler.on_get_task: a None from the
\* RequestHandler raises ServerError(TaskNotFoundError()) inside the try.
OnGetTask(req) ==
    IF req.outcome.do = "raises"
    THEN Raise(ExceptServerError(req.outcome.exc, req.build))
    ELSE IF req.outcome.value # "None" THEN Return("json")
         ELSE Raise(ExceptServerError(
                  PyException("ServerError", "", DefaultError("TaskNotFoundError")),
                  req.build))

OnCancelTask(req) == OnGetTask(req)

\* RESTHandler.get_push_notification
GetPushNotification(req) ==
    IF req.outcome.do = "raises"
    THEN Raise(ExceptServerError(req.outcome.exc, req.build))
    ELSE Return("json")

\* RESTHandler.set_push_notification: the decorator raises outside the try;
\* model_validate is handed the bytes of the body, which are no dictionary,
\* so it raises before the RequestHandler is called.
SetPushNotification(req) ==
    IF ~req.capable THEN Raise(ValidateFails)
    ELSE IF req.body = "invalid" THEN Raise(ParseError)
         ELSE Raise(PyException("ValidationError", "model_validate", NoError))

\* RESTHandler.list_push_notifications and RESTHandler.list_tasks
ListNotImplemented(req) == Raise(PyException("NotImplementedError", "not implemented", NoError))

\* The blocking method a route is bound to.
Method(req) ==
    CASE req.op = "on_message_send" -> OnMessageSend(req)
      [] req.op = "on_get_task" -> OnGetTask(req)
      [] req.op = "on_cancel_task" -> OnCancelTask(req)
      [] req.op = "get_push_notification" -> GetPushNotification(req)
      [] req.op = "set_push_notification" -> SetPushNotification(req)
      [] OTHER -> ListNotImplemented(req)

\* The body of a streaming method, run when the response is iterated.
StreamBody(req) ==
    IF req.op = "on_message_send_stream" /\ req.body = "invalid" THEN Raise(ParseError)
    ELSE IF req.outcome.do = "raises"
         THEN Raise(ExceptServerError(req.outcome.exc, req.build))
         ELSE Return("end")

\* str(error)
Str(exc) == IF exc.text # "" THEN <<"text", exc.text>> ELSE <<"str", exc.type>>

\* json.loads(error.json()) of a ValidationError
Detail(exc) == <<"detail", exc.text>>

\* RESTApplication._generate_error_response: the level of the log depends on
\* the error; the answer is status 404 with the message alone.
GenerateErrorResponse(error) ==
    [status |-> 404, result |-> "none",
     body |-> [code |-> "absent", message |-> error.message, data |-> Absent],
     error |-> error,
     log |-> IF error.kind = "InternalError" THEN "ERROR" ELSE "WARNING",
     escaped |-> NoException]

\* RESTApplication._handle_error
HandleError(exc) ==
    CASE exc.type = "MethodNotImplementedError" ->
            GenerateErrorResponse(DefaultError("UnsupportedOperationError"))
      [] exc.type = "JSONDecodeError" ->
            GenerateErrorResponse([kind |-> "JSONParseError", message |-> Str(exc),
                                   data |-> NoData])
      [] exc.type = "ValidationError" ->
            GenerateErrorResponse([kind |-> "InvalidRequestError",
                                   message |-> <<"default", "InvalidRequestError">>,
                                   data |-> Detail(exc)])
      [] OTHER ->
            GenerateErrorResponse([kind |-> "InternalError", message |-> Str(exc),
                                   data |-> NoData])

\* JSONResponse(content=response)
JSONResponse(value) == [NoResponse EXCEPT !.status = 200, !.result = value]

\* The requests and the behaviours of the RequestHandler on them. A field
\* that the method never looks at keeps one value.
Requests ==
    {r \in [op : BlockingMethods \cup StreamingMethods, body : {"valid", "invalid"},
            capable : BOOLEAN, outcome : HandlerOutcomes, build : A2ABuilds,
            state : {"received"}] :
        /\ r.body = "invalid" => r.op \in ParsesBody
        /\ ~r.capable => r.op \in Validated
        /\ r.op \notin CallsHandler => r.outcome = NoRequest.outcome
        /\ r.outcome.value = "None" /\ r.outcome.do = "returns"
              => r.op \in {"on_get_task", "on_cancel_task"}}

\* A request arrives. The build of a2a.types is the same for every request.
ReceiveRequest(req) ==
    /\ served.state \in {"none", "answered"}
    /\ handled < MaxCalls
    /\ handled > 0 => req.build = served.build
    /\ served' = req
    /\ response' = NoResponse
    /\ UNCHANGED handled
    /\ UNCHANGED <<qvars, cvars, fvars, pvars, avars, yvars, zvars>>

\* RESTApplication._handle_request
HandleRequest ==
    /\ served.state = "received"
    /\ served.op \in BlockingMethods \cap Routes
    /\ LET r == Method(served)
       IN response' = IF r.exc = NoException THEN JSONResponse(r.value)
                      ELSE HandleError(r.exc)
    /\ served' = [served EXCEPT !.state = "answered"]
    /\ handled' = handled + 1
    /\ UNCHANGED <<qvars, cvars, fvars, pvars, avars, yvars, zvars>>

\* RESTApplication._handle_streaming_request: the decorator raises when the
\* method is called, the error is logged and raised again; otherwise the
\* EventSourceResponse is returned before the body of the method runs.
HandleStreamingRequest ==
    /\ served.state = "received"
    /\ served.op \in StreamingMethods
    /\ IF ~served.capable
       THEN /\ response' = [NoResponse EXCEPT !.status = 500,
                                              !.log = HandleError(ValidateFails).log,
                                              !.escaped = ValidateFails]
            /\ served' = [served EXCEPT !.state = "answered"]
            /\ handled' = handled + 1
       ELSE /\ response' = JSONResponse("stream")
            /\ served' = [served EXCEPT !.state = "streaming"]
            /\ UNCHANGED handled
    /\ UNCHANGED <<qvars, cvars, fvars, pvars, avars, yvars, zvars>>

\* The server iterates the EventSourceResponse: an exception of the body of
\* the method leaves the application.
IterateStream ==
    /\ served.state = "streaming"
    /\ response' = [response EXCEPT !.escaped = StreamBody(served).exc]
    /\ served' = [served EXCEPT !.state = "answered"]
    /\ handled' = handled + 1
    /\ UNCHANGED <<qvars, cvars, fvars, pvars, avars, yvars, zvars>>

\* A request for a method that has no route: the framework answers, 404 when
\* no path matches and 405 when a path matches with another HTTP method.
NoRoute(status) ==
    /\ served.state = "received"
    /\ served.op \notin Routes
    /\ response' = [NoResponse EXCEPT !.status = status]
    /\ served' = [served EXCEPT !.state = "answered"]
    /\ handled' = handled + 1
    /\ UNCHANGED <<qvars, cvars, fvars, pvars, avars, yvars, zvars>>

ServerInit ==
    /\ QueueInit
    /\ NoFurther
    /\ NoClient
    /\ NoFactory
    /\ NoPush
    /\ NoAuth
    /\ NoServer

ServerNext ==
    \/ \E req \in Requests : ReceiveRequest(req)
    \/ HandleRequest
    \/ HandleStreamingRequest
    \/ IterateStream
    \/ \E status \in {404, 405} : NoRoute(status)

ServerSpec == ServerInit /\ [][ServerNext]_vars

\* The request has been answered.
Answered == served.state = "answered"

\* The RequestHandler was called for the request.
HandlerCalled ==
    /\ served.op \in CallsHandler
    /\ served.body = "valid"
    /\ served.capable

\* The structured error the request handler ended with: the error its
\* ServerError wraps, or TaskNotFoundError when get-task or cancel-task found
\* no task.
Wrapped ==
    IF served.outcome.do = "raises"
    THEN IF served.outcome.exc.type = "ServerError" THEN served.outcome.exc.error
         ELSE NoError
    ELSE IF served.outcome.value = "None" THEN DefaultError("TaskNotFoundError")
         ELSE NoError

\* C29: a structured protocol error raised by the request handler is reported
\* to the caller with the same kind and message (the code is fixed by the
\* kind); a task not found by get-task or cancel-task is reported as
\* TaskNotFoundError.
C29_ReportedVerbatim ==
    (Answered /\ served.op \in BlockingMethods /\ HandlerCalled /\ Wrapped # NoError)
        => /\ response.error.kind = Wrapped.kind
           /\ response.error.message = Wrapped.message

\* The exception of another kind the request handler raised.
HandlerException ==
    IF served.outcome.do = "raises" /\ served.outcome.exc.type \in HandlerKinds
    THEN served.outcome.exc
    ELSE NoException

\* The protocol error the claim names for the kind of an exception.
ErrorFor(exc) ==
    CASE exc.type = "MethodNotImplementedError" -> "UnsupportedOperationError"
      [] exc.type = "JSONDecodeError" -> "JSONParseError"
      [] exc.type = "ValidationError" -> "InvalidRequestError"
      [] OTHER -> "InternalError"

\* C30: an exception raised while a blocking request is handled does not
\* leave the application; the answer is the protocol error of the exception's
\* kind, the answer to a validation error carries the validation detail, and
\* the answer to any other exception carries the exception's message.
C30_AnsweredByKind ==
    (Answered /\ served.op \in BlockingMethods \cap Routes /\ HandlerCalled
       /\ HandlerException # NoException)
        => /\ response.escaped = NoException
           /\ response.error.kind = ErrorFor(HandlerException)
           /\ HandlerException.type = "ValidationError"
                 => response.body.data = Detail(HandlerException)
           /\ HandlerException.type = "Exception"
                 => response.body.message = Str(HandlerException)

\* ---------------------------------------------------------------------
\* Further properties of the queue managers.

\* C34: close(t) on a manager that holds neither a local nor a proxy queue
\* for t raises NoTaskQueue, and the step changes nothing: the registry, the
\* maps, the queues, the subscriptions, the relay tasks and the messages
\* under way are as before, whether or not t is registered.
C34_CloseMissingFrame ==
    [][(last'.op = "close" /\ ~last'.hadLocal /\ ~last'.hadProxy)
          => /\ last'.kind = "NoTaskQueue"
             /\ registry' = registry
             /\ local_queue' = local_queue
             /\ proxy_queue' = proxy_queue
             /\ queue' = queue
             /\ subs' = subs
             /\ relay' = relay
             /\ background_tasks' = background_tasks
             /\ inbox' = inbox]_vars

\* C34 witness: close(t) has just raised NoTaskQueue on a manager without a
\* queue for t while another manager holds the registered origin queue of t.
C34_Witness ==
    /\ last.op = "close" /\ last.kind = "NoTaskQueue"
    /\ ~last.hadLocal /\ ~last.hadProxy
    /\ last.t \in registry
    /\ \E n \in Managers \ {last.m} :
           /\ local_queue[n][last.t] # 0
           /\ ~queue[local_queue[n][last.t]].closed

\* C35: at every moment at most one manager holds a local (origin) queue for
\* a task id, also while add and create_or_tap for the id run concurrently
\* on different managers.
C35_OneOriginHolder ==
    \A t \in TaskIds :
        Cardinality({m \in Managers : local_queue[m][t] # 0}) <= 1

\* C36: no manager holds a task id in both its local-queue map and its
\* proxy-queue map.
C36_LocalOrProxy ==
    \A m \in Managers, t \in TaskIds :
        ~(local_queue[m][t] # 0 /\ proxy_queue[m][t] # 0)

\* The steps the event loop and Redis take on their own: a suspended call
\* gets the reply of its Redis command, a relay task publishes a pending
\* event, a pubsub handler runs on a delivered message, a consumer waiting
\* in dequeue_event receives a pending event.
Scheduled ==
    \/ \E c \in Slots : AddRegister(c) \/ GetSubscribe(c) \/ CloseRemove(c)
                            \/ CotRegister(c) \/ CotSubscribe(c)
    \/ \E q \in QueueIds : ListenAndRelay(q) \/ Dequeue(q)
    \/ \E m \in Managers : RelayRemoteEvents(m)

\* The queue managers under a scheduler that does not starve a step that
\* stays possible. Calls and produced events are inputs and may stop.
FairSpec == Init /\ [][Next]_vars /\ WF_vars(Scheduled)

\* Queue x is an open proxy queue, held by its manager, of a task whose
\* origin queue in another manager has been closed.
OrphanProxy(x) ==
    /\ x \in DOMAIN queue
    /\ role[x].kind = "proxy"
    /\ proxy_queue[role[x].m][role[x].t] = x
    /\ ~queue[x].closed
    /\ \E q \in OriginsOf(role[x].t) :
           /\ role[q].m # role[x].m
           /\ queue[q].closed
           /\ local_queue[role[q].m][role[q].t] # q

\* End-of-stream has reached queue x.
EndOfStream(x) == x \in DOMAIN queue /\ queue[x].closed

\* C37: when the origin queue of a task is closed, every proxy queue for the
\* task in another manager eventually reaches end-of-stream.
C37_ProxiesEnd == \A x \in 1..MaxInputs : OrphanProxy(x) ~> EndOfStream(x)

\* ---------------------------------------------------------------------
\* Further properties of the auth interceptor.

\* The scheme types intercept has a branch for.
SupportedTypes == {"http_bearer", "oauth2", "apiKey_header"}

\* The positions, in the order of the card's security requirements, of the
\* schemes that have a credential and a supported type.
Applicable ==
    {i \in DOMAIN SchemeNamesOf(agent_card.security) :
        LET n == SchemeNamesOf(agent_card.security)[i]
        IN  credentials[n] # "None" /\ TypeOf(n) \in SupportedTypes}

\* The first such scheme.
FirstApplicable ==
    SchemeNamesOf(agent_card.security)[
        CHOOSE i \in Applicable : \A j \in Applicable : i <= j]

\* The name of the header a scheme of a supported type sets.
HeaderNameOf(n) ==
    IF TypeOf(n) = "apiKey_header" THEN "X-API-Key-" \o n ELSE "Authorization"

\* C40: intercept applies the credential of one scheme, the first in the
\* order of the card's security requirements that has a credential and a
\* supported type: the headers returned are the ones received with that
\* scheme's header set, no later scheme contributes a header, and the payload
\* is returned unchanged. With no such scheme nothing is changed.
C40_FirstSchemeOnly ==
    intercepted.done =>
        /\ intercepted.payload = request.payload
        /\ IF Applicable = {}
           THEN intercepted.http_kwargs = request.http_kwargs
           ELSE LET n == FirstApplicable
                    value == IF TypeOf(n) = "apiKey_header"
                             THEN Plain(credentials[n])
                             ELSE Bearer(credentials[n])
                IN  intercepted.http_kwargs.headers =
                        {h \in request.http_kwargs.headers : h[1] # HeaderNameOf(n)}
                            \cup {<<HeaderNameOf(n), value>>}

\* C40 witness: two schemes of one requirement both have a credential and a
\* supported type, and only the header of the first has been set.
C40_Witness ==
    /\ intercepted.done
    /\ agent_card.security = <<<<"s1", "s2">>>>
    /\ TypeOf("s1") = "http_bearer" /\ TypeOf("s2") = "apiKey_header"
    /\ credentials["s1"] # "None" /\ credentials["s2"] # "None"
    /\ <<"Authorization", Bearer(credentials["s1"])>> \in intercepted.http_kwargs.headers
    /\ \A h \in intercepted.http_kwargs.headers : h[1] # HeaderNameOf("s2")

\* ---------------------------------------------------------------------
\* One call of send_message_streaming of a transport client:
\* GrpcTransportClient (grpc_client.py), JsonRpcTransportClient
\* (jsonrpc_client.py), RestTransportClient (rest_client.py).

\* A transport loop that stops once it has yielded a Message.
ContinuesUntilMessage(transport, frame) == frame.field # "msg"

\* The field of StreamResponse (the member of the JSON-RPC result union) that
\* carries an event.
FieldOf(e) ==
    CASE e.kind = "message" -> "msg"
      [] e.kind = "task" -> "task"
      [] e.kind = "status" -> "status_update"
      [] OTHER -> "artifact_update"

\* What the server puts on the wire for an event: a StreamResponse message on
\* gRPC, an SSE whose data is the JSON of a SendStreamingMessageResponse on
\* JSON-RPC, an SSE whose data is the JSON of a StreamResponse on REST.
Frame(transport, e) ==
    [encoding |-> CASE transport = "GRPC" -> "proto"
                    [] transport = "JSONRPC" -> "sse_jsonrpc"
                    [] OTHER -> "sse_proto",
     field |-> FieldOf(e), event |-> e]

\* proto_utils.FromProto.message / task / task_status_update_event /
\* task_artifact_update_event: the object of a2a.types for a field.
FromProto(frame) ==
    [type |-> CASE frame.field = "msg" -> "Message"
                [] frame.field = "task" -> "Task"
                [] frame.field = "status_update" -> "TaskStatusUpdateEvent"
                [] OTHER -> "TaskArtifactUpdateEvent",
     event |-> frame.event]

\* The body of the loop of GrpcTransportClient.send_message_streaming: the
\* if/elif chain yields one object for a response with one of the four
\* fields, and nothing for any other response.
GrpcYield(frame) ==
    IF frame.field \in {"msg", "task", "status_update", "artifact_update"}
    THEN <<FromProto(frame)>>
    ELSE <<>>

\* JsonRpcTransportClient: `yield SendStreamingMessageResponse.model_validate(json.loads(sse.data))`
JsonRpcYield(frame) ==
    <<[type |-> "SendStreamingMessageResponse", event |-> frame.event]>>

\* RestTransportClient: `Parse(sse.data, event); yield proto_utils.FromProto.stream_response(event)`
RestYield(frame) == <<FromProto(frame)>>

\* What one iteration of the loop yields.
TransportYield(transport, frame) ==
    CASE transport = "GRPC" -> GrpcYield(frame)
      [] transport = "JSONRPC" -> JsonRpcYield(frame)
      [] OTHER -> RestYield(frame)

\* Whether the loop goes on after a frame: no loop has a break or a return
\* but the one at the end of the stream.
Continues(transport, frame) == TRUE

\* `stream = self.stub.SendStreamingMessage(...)`, `async with aconnect_sse(...)`
StreamOpen ==
    /\ transport_stream.pc = "idle"
    /\ transport_stream' = [transport_stream EXCEPT !.pc = "reading"]
    /\ UNCHANGED <<qvars, cvars, fvars, pvars, avars, svars, zvars>>

\* One iteration: `response = await stream.read()`, `async for sse in
\* event_source.aiter_sse()`, with the frame of event e.
StreamRead(e) ==
    /\ transport_stream.pc = "reading"
    /\ Len(transport_stream.delivered) < MaxStream
    /\ LET frame == Frame(transport_stream.transport, e)
       IN  transport_stream' =
               [transport_stream EXCEPT
                   !.delivered = Append(@, frame),
                   !.items = @ \o TransportYield(transport_stream.transport, frame),
                   !.pc = IF Continues(transport_stream.transport, frame)
                          THEN "reading" ELSE "ended"]
    /\ UNCHANGED <<qvars, cvars, fvars, pvars, avars, svars, zvars>>

\* The underlying stream ends: grpc.aio.EOF, the SSE iteration is exhausted.
StreamEOF ==
    /\ transport_stream.pc = "reading"
    /\ transport_stream' = [transport_stream EXCEPT !.pc = "ended", !.eof = TRUE]
    /\ UNCHANGED <<qvars, cvars, fvars, pvars, avars, svars, zvars>>

\* The underlying stream breaks: the generator raises.
StreamBreaks ==
    /\ transport_stream.pc = "reading"
    /\ transport_stream' = [transport_stream EXCEPT !.pc = "raised"]
    /\ UNCHANGED <<qvars, cvars, fvars, pvars, avars, svars, zvars>>

StreamInit ==
    /\ QueueInit
    /\ NoClient
    /\ NoFactory
    /\ NoPush
    /\ NoAuth
    /\ NoServer
    /\ NoLater
    /\ \E tr \in Transports :
           transport_stream = [transport |-> tr, pc |-> "idle", delivered |-> <<>>,
                               items |-> <<>>, eof |-> FALSE]

StreamNext ==
    \/ StreamOpen
    \/ \E e \in StreamEvents : StreamRead(e)
    \/ StreamEOF
    \/ StreamBreaks

StreamSpec == StreamInit /\ [][StreamNext]_vars

\* C32: send_message_streaming of a transport yields one item per event the
\* server delivers, in arrival order, none dropped and none merged, and ends
\* only when the underlying stream ends; a Message in the stream is yielded
\* like any other event and does not end the stream.
C32_OneItemPerEvent ==
    /\ Len(transport_stream.items) = Len(transport_stream.delivered)
    /\ \A i \in DOMAIN transport_stream.items :
           transport_stream.items[i].event = transport_stream.delivered[i].event
    /\ transport_stream.pc = "ended" => transport_stream.eof

\* C32 witness: a Message came first, the stream went on, a second event
\* was yielded after it, and the stream ended at its end.
C32_Witness ==
    /\ transport_stream.pc = "ended"
    /\ Len(transport_stream.items) = 2
    /\ transport_stream.items[1].event = MessageEvent
    /\ transport_stream.items[2].event = TaskEvent


\* ------------------------------------------------ JSON-RPC request ids
\* JsonRpcTransportClient: every operation but resubscribe starts with
\*     if not request.id: request.id = str(uuid4())
\* then dumps the request, passes it through the interceptors (none here),
\* posts it and validates the response into the response model.

MaxRpcCalls == 2

StrId(s) == [type |-> "str", val |-> s, num |-> 0]
IntId(n) == [type |-> "int", val |-> "", num |-> n]

\* The ids a caller puts in a request.
CallerIds == {NoneId, StrId(""), StrId("req-1"), IntId(0), IntId(123)}

\* The operations whose body tests request.id, and the one that does not.
GeneratingOps == {"message/send", "message/stream", "tasks/get", "tasks/cancel",
                  "tasks/pushNotificationConfig/set", "tasks/pushNotificationConfig/get"}
JsonRpcOps == GeneratingOps \cup {"tasks/resubscribe"}

\* Python's `not request.id`: true of None, of the empty string and of the integer 0.
NotId(id) ==
    \/ id.type = "None"
    \/ id.type = "str" /\ id.val = ""
    \/ id.type = "int" /\ id.num = 0

\* str(uuid4()), the k-th draw.
Uuid4(k) == [type |-> "str", val |-> "uuid4", num |-> k]

\* request.id after the test at the head of the operation.
RequestId(op, id, k) ==
    IF op \in GeneratingOps /\ NotId(id) THEN Uuid4(k) ELSE id

\* request.model_dump(mode='json', exclude_none=True): a string id is dumped as a
\* JSON string, an integer id as a JSON number, and a None id leaves no "id" key.
ModelDump(op, id) ==
    [method |-> op,
     id |-> CASE id.type = "str" -> [json |-> "string", val |-> id.val, num |-> id.num]
              [] id.type = "int" -> [json |-> "number", val |-> "", num |-> id.num]
              [] OTHER -> [json |-> "absent", val |-> "", num |-> 0]]

\* The id of a JSON payload read back as str | int | None.
IdOf(payload) ==
    CASE payload.id.json = "string" -> [type |-> "str", val |-> payload.id.val, num |-> payload.id.num]
      [] payload.id.json = "number" -> [type |-> "int", val |-> "", num |-> payload.id.num]
      [] OTHER -> NoneId

\* The JSON-RPC response of the server to a payload carries the payload's id.
ResponseData(payload) == [id |-> payload.id, result |-> "ok"]

\* XResponse.model_validate(response_data)
ModelValidate(data) == IdOf(data)

\* An operation is called with a request: the id is tested and possibly replaced.
RpcCall(op, id) ==
    /\ rpc.pc = "idle"
    /\ rpc.calls < MaxRpcCalls
    /\ LET fresh == op \in GeneratingOps /\ NotId(id)
       IN  rpc' = [rpc EXCEPT !.pc = "called", !.op = op, !.given = id,
                              !.request_id = RequestId(op, id, rpc.generated + 1),
                              !.sent = NoneId, !.returned = NoneId,
                              !.generated = IF fresh THEN @ + 1 ELSE @,
                              !.calls = @ + 1]
    /\ UNCHANGED <<uvars, transport_card, models, rest_call>>

\* The dumped request is posted.
RpcSend ==
    /\ rpc.pc = "called"
    /\ rpc' = [rpc EXCEPT !.pc = "sent",
                          !.sent = IdOf(ModelDump(rpc.op, rpc.request_id))]
    /\ UNCHANGED <<uvars, transport_card, models, rest_call>>

\* The response is validated and handed back.
RpcReturn ==
    /\ rpc.pc = "sent"
    /\ rpc' = [rpc EXCEPT !.pc = "idle",
                          !.returned = ModelValidate(ResponseData(ModelDump(rpc.op, rpc.sent)))]
    /\ UNCHANGED <<uvars, transport_card, models, rest_call>>

RpcInit ==
    /\ QueueInit
    /\ NoClient
    /\ NoFactory
    /\ NoPush
    /\ NoAuth
    /\ NoServer
    /\ NoStream
    /\ NoCardCalls
    /\ NoModels
    /\ NoRestCall
    /\ rpc = [pc |-> "idle", op |-> "none", given |-> NoneId, request_id |-> NoneId,
              sent |-> NoneId, returned |-> NoneId, generated |-> 0, calls |-> 0]

RpcNext ==
    \/ \E op \in JsonRpcOps, id \in CallerIds : RpcCall(op, id)
    \/ RpcSend
    \/ RpcReturn

RpcSpec == RpcInit /\ [][RpcNext]_vars

\* C33: whenever the request carries an id, string or integer and of any value,
\* the id sent is that id; an id is generated only when the request carries none;
\* the id of the response handed back is the id sent.
C33_CallerIdKept ==
    /\ rpc.pc = "sent" /\ rpc.given # NoneId => rpc.sent = rpc.given
    /\ rpc.pc = "idle" /\ rpc.calls > 0 => rpc.returned = rpc.sent


\* ------------------------------------------------ get_card of the transports
\* Each transport client keeps agent_card and _needs_extended_card; get_card
\* returns the held card when the flag is off, and asks the server otherwise.

MaxCardCalls == 4

AgentCards == [held : {TRUE}, supports : BOOLEAN, extended : {FALSE}]

\* __init__: the flag of a client built with this card (or with none).
\* GrpcTransportClient takes the card's supportsAuthenticatedExtendedCard,
\* JsonRpcTransportClient and RestTransportClient take its negation.
NeedsExtendedCard(transport, ac) ==
    IF ~ac.held THEN TRUE
    ELSE IF transport = "GRPC" THEN ac.supports
    ELSE ~ac.supports

\* The card a server answers an extended-card request with.
ExtendedCard(supports) == [held |-> TRUE, supports |-> supports, extended |-> TRUE]

\* The public card A2ACardResolver fetches.
PublicCard(supports) == [held |-> TRUE, supports |-> supports, extended |-> FALSE]

\* What one call records: the call counted, whether a card was held, what it
\* declared and whether it was a fetched extended card when the call started.
Called(c) ==
    [c EXCEPT !.calls = @ + 1,
              !.holding = c.agent_card.held,
              !.declared = c.agent_card.held /\ c.agent_card.supports,
              !.fetched = c.agent_card.extended]

\* GrpcTransportClient.get_card up to the call of stub.GetAgentCard
GrpcGetCard ==
    /\ transport_card.transport = "GRPC"
    /\ transport_card.pc = "idle"
    /\ transport_card.calls < MaxCardCalls
    /\ LET c == Called(transport_card)
       IN  transport_card' =
               IF ~c.needs
               THEN [c EXCEPT !.requested = FALSE, !.result = "card"]
               ELSE [c EXCEPT !.requested = TRUE, !.requests = @ + 1,
                              !.result = "none", !.pc = "requesting"]
    /\ UNCHANGED <<uvars, rpc, models, rest_call>>

\* RestTransportClient.get_card up to GET /v1/card/get: without a held card the
\* public card is fetched first and sets the flag.
RestGetCard(supports) ==
    /\ transport_card.transport = "REST"
    /\ transport_card.pc = "idle"
    /\ transport_card.calls < MaxCardCalls
    /\ LET c == Called(transport_card)
           d == IF c.agent_card.held THEN c
                ELSE [c EXCEPT !.agent_card = PublicCard(supports), !.needs = supports]
       IN  transport_card' =
               IF ~d.needs
               THEN [d EXCEPT !.requested = FALSE, !.result = "card"]
               ELSE [d EXCEPT !.requested = TRUE, !.requests = @ + 1,
                              !.result = "none", !.pc = "requesting"]
    /\ UNCHANGED <<uvars, rpc, models, rest_call>>

\* The server answers the request: the card answered is kept and the flag is
\* cleared, or the error is raised and the client is left as it was.
CardAnswered(answer, supports) ==
    /\ transport_card.pc = "requesting"
    /\ transport_card' =
           IF answer = "ok"
           THEN [transport_card EXCEPT !.pc = "idle", !.result = "card",
                                       !.agent_card = ExtendedCard(supports),
                                       !.needs = FALSE]
           ELSE [transport_card EXCEPT !.pc = "idle",
                                       !.result = IF transport_card.transport = "GRPC"
                                                  THEN "RpcError"
                                                  ELSE "A2AClientHTTPError"]
    /\ UNCHANGED <<uvars, rpc, models, rest_call>>

\* JsonRpcTransportClient.get_card reads self.card, an attribute __init__ never
\* sets (it sets self.agent_card): the call raises before anything else.
JsonRpcGetCard ==
    /\ transport_card.transport = "JSONRPC"
    /\ transport_card.pc = "idle"
    /\ transport_card.calls < MaxCardCalls
    /\ transport_card' = [Called(transport_card) EXCEPT !.requested = FALSE,
                                                        !.result = "AttributeError"]
    /\ UNCHANGED <<uvars, rpc, models, rest_call>>

CardInit ==
    /\ QueueInit
    /\ NoClient
    /\ NoFactory
    /\ NoPush
    /\ NoAuth
    /\ NoServer
    /\ NoStream
    /\ NoRpc
    /\ NoModels
    /\ NoRestCall
    /\ \E tr \in Transports, ac \in AgentCards \cup {NoAgentCard} :
           transport_card = [transport |-> tr, pc |-> "idle", agent_card |-> ac,
                             needs |-> NeedsExtendedCard(tr, ac),
                             calls |-> 0, requests |-> 0, holding |-> FALSE, declared |-> FALSE,
                      fetched |-> FALSE,
                             requested |-> FALSE, result |-> "none"]

CardNext ==
    \/ GrpcGetCard
    \/ \E supports \in BOOLEAN : RestGetCard(supports)
    \/ JsonRpcGetCard
    \/ \E answer \in {"ok", "error"}, supports \in BOOLEAN : CardAnswered(answer, supports)

CardSpec == CardInit /\ [][CardNext]_vars

\* C38: on every transport a get_card call of a client that holds a card asks
\* the server for the extended card exactly when that card declares
\* supportsAuthenticatedExtendedCard and no extended card was fetched before;
\* once one is fetched, later calls return the cached card without a request.
C38_AsksWhenDeclared ==
    transport_card.calls > 0 /\ transport_card.holding =>
        /\ transport_card.requested <=> (transport_card.declared /\ ~transport_card.fetched)
        /\ transport_card.fetched => ~transport_card.requested /\ transport_card.result = "card"


\* ------------------------------------------------ A2ABaseModel alias cache
\* _alias_to_field_name_map is a class attribute, None on A2ABaseModel.  Reading
\* it on a class follows the class's bases; assigning it sets it on that class.

ModelClasses == {"A2ABaseModel", "Base", "Derived", "Plain"}

\* The classes a class attribute is looked up in, in order.
MRO(cls) ==
    CASE cls = "Derived" -> <<"Derived", "Base", "A2ABaseModel">>
      [] cls = "Base" -> <<"Base", "A2ABaseModel">>
      [] cls = "Plain" -> <<"Plain", "A2ABaseModel">>
      [] OTHER -> <<"A2ABaseModel">>

\* cls.model_fields: a derived class has the fields of its base and its own.
ModelFields(cls) ==
    CASE cls = "Derived" -> {"task_id", "context_id"}
      [] cls = "Base" -> {"task_id"}
      [] cls = "Plain" -> {"context_id", "in_"}
      [] OTHER -> {}

FieldNames == {"task_id", "context_id", "in_"}

\* to_camel_custom: trailing underscores are stripped, then the name is camel-cased.
ToCamelCustom(snake) ==
    CASE snake = "task_id" -> "taskId"
      [] snake = "context_id" -> "contextId"
      [] snake = "in_" -> "in"
      [] OTHER -> snake

\* The names an attribute is accessed by.
AttrNames == FieldNames \cup {ToCamelCustom(f) : f \in FieldNames} \cup {"missing"}

Values == {0, 1}

\* The dict built from cls.model_fields: pairs <<alias, field name>>.
BuildAliasMap(cls) == {<<ToCamelCustom(f), f>> : f \in ModelFields(cls)}

\* cls._alias_to_field_name_map: the value set on the first class of the MRO
\* that has one, None (built FALSE) when no class has.
ClassAttr(cache, cls) ==
    LET mro == MRO(cls)
        set == {i \in DOMAIN mro : cache[mro[i]].built}
    IN  IF set = {} THEN [built |-> FALSE, map |-> {}]
        ELSE cache[mro[CHOOSE i \in set : \A j \in set : i <= j]]

\* _initialize_alias_map: builds the map of cls when the attribute read is None.
InitializeAliasMap(cache, cls) ==
    IF ~ClassAttr(cache, cls).built
    THEN [cache EXCEPT ![cls] = [built |-> TRUE, map |-> BuildAliasMap(cls)]]
    ELSE cache

\* map.get(name): the field name, "" for None.
MapGet(map, name) ==
    IF \E p \in map : p[1] = name
    THEN (CHOOSE p \in map : p[1] = name)[2]
    ELSE ""

\* __getattr__ of an instance of cls: called for a name normal lookup does not find.
GetAttr(cls, name) ==
    /\ name \notin ModelFields(cls)
    /\ LET cache == InitializeAliasMap(models.cache, cls)
           field_name == MapGet(ClassAttr(cache, cls).map, name)
       IN  models' = [models EXCEPT
               !.cache = cache,
               !.last = [cls |-> cls, op |-> "get", name |-> name, field |-> field_name,
                         outcome |-> IF field_name # "" THEN "value" ELSE "AttributeError"]]
    /\ UNCHANGED <<uvars, rpc, transport_card, rest_call>>

\* __setattr__ of an instance of cls: a name that is no alias goes to
\* BaseModel.__setattr__, which sets a field and rejects any other name.
SetAttr(cls, name, value) ==
    /\ LET cache == InitializeAliasMap(models.cache, cls)
           field_name == MapGet(ClassAttr(cache, cls).map, name)
           target == IF field_name # "" THEN field_name ELSE name
       IN  IF target \in ModelFields(cls)
           THEN models' = [models EXCEPT
                    !.cache = cache,
                    !.fields[cls][target] = value,
                    !.last = [cls |-> cls, op |-> "set", name |-> name, field |-> target,
                              outcome |-> "set"]]
           ELSE models' = [models EXCEPT
                    !.cache = cache,
                    !.last = [cls |-> cls, op |-> "set", name |-> name, field |-> "",
                              outcome |-> "ValueError"]]
    /\ UNCHANGED <<uvars, rpc, transport_card, rest_call>>

ModelInit ==
    /\ QueueInit
    /\ NoClient
    /\ NoFactory
    /\ NoPush
    /\ NoAuth
    /\ NoServer
    /\ NoStream
    /\ NoRpc
    /\ NoCardCalls
    /\ NoRestCall
    /\ models = [cache |-> [c \in ModelClasses |-> [built |-> FALSE, map |-> {}]],
                 fields |-> [c \in ModelClasses |-> [f \in ModelFields(c) |-> 0]],
                 last |-> [cls |-> "none", op |-> "none", name |-> "", field |-> "",
                           outcome |-> "none"]]

ModelNext ==
    \/ \E cls \in ModelClasses, name \in AttrNames : GetAttr(cls, name)
    \/ \E cls \in ModelClasses, name \in AttrNames, value \in Values : SetAttr(cls, name, value)

ModelSpec == ModelInit /\ [][ModelNext]_vars

\* C39: an access to an instance of class C by the camelCase alias of one of C's
\* fields resolves to that field, whatever classes were accessed before.
C39_AliasResolvesOwnField ==
    \A f \in FieldNames :
        (/\ models.last.op # "none"
         /\ f \in ModelFields(models.last.cls)
         /\ models.last.name = ToCamelCustom(f)) => models.last.field = f


\* ------------------------------------------------ REST endpoints
\* A path is the sequence of its segments.  A segment of a request is a text
\* followed by a suffix (the task id followed by ":cancel"); a segment of a route
\* is a literal or a parameter followed by a suffix ("{id}:subscribe").

MaxRestCalls == 2

Seg(text, suffix) == [text |-> text, suffix |-> suffix]
Lit(text) == [param |-> FALSE, text |-> text, suffix |-> ""]
Param(suffix) == [param |-> TRUE, text |-> "", suffix |-> suffix]

RestTaskIds == {"t1", "t2"}
PushIds == {"p1", "p2"}

RestOps == {"send_message", "send_message_streaming", "get_task", "cancel_task",
            "set_task_callback", "get_task_callback", "resubscribe", "get_card"}

\* The (method, path) each operation of RestTransportClient requests.
ClientRequest(op, id, push_id) ==
    CASE op = "send_message" ->
             [method |-> "POST", path |-> <<Seg("v1", ""), Seg("message:send", "")>>]
      [] op = "send_message_streaming" ->
             [method |-> "POST", path |-> <<Seg("v1", ""), Seg("message:stream", "")>>]
      [] op = "get_task" ->
             [method |-> "GET", path |-> <<Seg("v1", ""), Seg("tasks", ""), Seg(id, "")>>]
      [] op = "cancel_task" ->
             [method |-> "POST",
              path |-> <<Seg("v1", ""), Seg("tasks", ""), Seg(id, ":cancel")>>]
      [] op = "set_task_callback" ->
             [method |-> "POST",
              path |-> <<Seg("v1", ""), Seg("tasks", ""), Seg(id, ""),
                         Seg("pushNotificationConfigs", ""), Seg("", "")>>]
      [] op = "get_task_callback" ->
             [method |-> "GET",
              path |-> <<Seg("v1", ""), Seg("tasks", ""), Seg(id, ""),
                         Seg("pushNotificationConfigs", ""), Seg(push_id, "")>>]
      [] op = "resubscribe" ->
             [method |-> "POST",
              path |-> <<Seg("v1", ""), Seg("tasks", ""), Seg(id, ":subscribe")>>]
      [] OTHER ->
             [method |-> "GET", path |-> <<Seg("v1", ""), Seg("card", ""), Seg("get", "")>>]

\* RESTApplication.routes(): the card route exists only for a card that declares
\* supportsAuthenticatedExtendedCard.
RouteTable(supports) ==
    {[path |-> <<Lit("v1"), Lit("message:send")>>, method |-> "POST",
      handler |-> "on_message_send"],
     [path |-> <<Lit("v1"), Lit("message:stream")>>, method |-> "POST",
      handler |-> "on_message_send_stream"],
     [path |-> <<Lit("v1"), Lit("tasks"), Param(":subscribe")>>, method |-> "POST",
      handler |-> "on_resubscribe_to_task"],
     [path |-> <<Lit("v1"), Lit("tasks"), Param("")>>, method |-> "GET",
      handler |-> "on_get_task"],
     [path |-> <<Lit("v1"), Lit("tasks"), Param(""), Lit("pushNotificationConfigs"), Param("")>>,
      method |-> "GET", handler |-> "get_push_notification"],
     [path |-> <<Lit("v1"), Lit("tasks"), Param(""), Lit("pushNotificationConfigs")>>,
      method |-> "POST", handler |-> "set_push_notification"],
     [path |-> <<Lit("v1"), Lit("tasks"), Param(""), Lit("pushNotificationConfigs")>>,
      method |-> "GET", handler |-> "list_push_notifications"],
     [path |-> <<Lit("v1"), Lit("tasks")>>, method |-> "GET", handler |-> "list_tasks"]}
    \cup (IF supports
          THEN {[path |-> <<Lit("v1"), Lit("card")>>, method |-> "GET",
                 handler |-> "handle_authenticated_agent_card"]}
          ELSE {})

\* A parameter matches any non-empty run of characters other than "/", followed
\* by the suffix of the route; a literal matches itself.
SegMatches(pattern, seg) ==
    IF pattern.param
    THEN IF pattern.suffix = ""
         THEN seg.text # ""
         ELSE seg.text # "" /\ seg.suffix = pattern.suffix
    ELSE seg.text = pattern.text /\ seg.suffix = ""

PathMatches(pattern, path) ==
    /\ Len(pattern) = Len(path)
    /\ \A i \in DOMAIN pattern : SegMatches(pattern[i], path[i])

\* What the application does with a request: the handler of the route that
\* matches path and method, 405 when only the path matches, 307 when the path
\* matches once its trailing slash is removed, 404 otherwise.
RouteRequest(supports, method, path) ==
    LET full == {r \in RouteTable(supports) : PathMatches(r.path, path) /\ r.method = method}
        partial == {r \in RouteTable(supports) : PathMatches(r.path, path)}
        slashed == /\ Len(path) > 1
                   /\ path[Len(path)] = Seg("", "")
                   /\ \E r \in RouteTable(supports) :
                          PathMatches(r.path, SubSeq(path, 1, Len(path) - 1))
    IN  IF full # {} THEN (CHOOSE r \in full : TRUE).handler
        ELSE IF partial # {} THEN "405"
        ELSE IF slashed THEN "307"
        ELSE "404"

\* The handler method that implements an operation of the client.
HandlerOf(op) ==
    CASE op = "send_message" -> "on_message_send"
      [] op = "send_message_streaming" -> "on_message_send_stream"
      [] op = "get_task" -> "on_get_task"
      [] op = "cancel_task" -> "on_cancel_task"
      [] op = "set_task_callback" -> "set_push_notification"
      [] op = "get_task_callback" -> "get_push_notification"
      [] op = "resubscribe" -> "on_resubscribe_to_task"
      [] OTHER -> "handle_authenticated_agent_card"

\* The client sends the request of an operation.
RestRequest(op, id, push_id) ==
    /\ rest_call.pc = "idle"
    /\ rest_call.calls < MaxRestCalls
    /\ LET req == ClientRequest(op, id, push_id)
       IN  rest_call' = [rest_call EXCEPT !.pc = "requested", !.op = op,
                                          !.method = req.method, !.path = req.path,
                                          !.handler = "none", !.calls = @ + 1]
    /\ UNCHANGED <<uvars, rpc, transport_card, models>>

\* The application looks the request up in its routes.
RestRoute ==
    /\ rest_call.pc = "requested"
    /\ rest_call' = [rest_call EXCEPT
           !.pc = "idle",
           !.handler = RouteRequest(rest_call.supports, rest_call.method, rest_call.path)]
    /\ UNCHANGED <<uvars, rpc, transport_card, models>>

RestInit ==
    /\ QueueInit
    /\ NoClient
    /\ NoFactory
    /\ NoPush
    /\ NoAuth
    /\ NoServer
    /\ NoStream
    /\ NoRpc
    /\ NoCardCalls
    /\ NoModels
    /\ \E supports \in BOOLEAN :
           rest_call = [pc |-> "idle", supports |-> supports, op |-> "none", method |-> "",
                        path |-> <<>>, handler |-> "none", calls |-> 0]

RestNext ==
    \/ \E op \in RestOps, id \in RestTaskIds, push_id \in PushIds : RestRequest(op, id, push_id)
    \/ RestRoute

RestSpec == RestInit /\ [][RestNext]_vars

\* C31: the (method, path) the REST client requests for an operation has a
\* registered route, the one of the handler method of that operation.
C31_EveryOperationRouted ==
    rest_call.pc = "idle" /\ rest_call.calls > 0 =>
        rest_call.handler = HandlerOf(rest_call.op)

====
